---------------------------- MODULE Spec2Model ----------------------------
(***************************************************************************)
(* A model of the CSV utilities, the password validator, the upload        *)
(* workflow, the home page, the data grid and the reset-password page of   *)
(* the shop-floor front end (src/utils/csvSafety.ts,                       *)
(* src/utils/headerValidation.ts, components/PasswordInput.tsx,            *)
(* components/CSVUpload.tsx, components/DataGrid.tsx, pages/HomePage.tsx,  *)
(* pages/ResetPasswordPage.tsx, hooks/useCSVData.ts, hooks/useAuth.ts).    *)
(*                                                                         *)
(* A JavaScript string is a sequence of one-character strings.  A          *)
(* JavaScript value is a record [t, v]: t is its type tag, v the string    *)
(* (for "string"), the integer (for "number") or 0.                        *)
(***************************************************************************)
EXTENDS Integers, Sequences, FiniteSets, TLC

VARIABLES
    fn,         \* the utility function under call; in the workflows the handler
                \* last called ("" when none)
    arg,        \* its argument(s)
    ret,        \* its return value, once pc = "done"
    pc,         \* "call" before the function ran, "done" after it returned,
                \* "threw" after it threw, "ui" in the workflows
    selected,   \* CSVUpload: the file picked in the file input (NoFile when none)
    inputValue, \* CSVUpload: fileInputRef.current.value ("" after the reset)
    mutation,   \* the status of the workflow's mutation (uploadMutation in
                \* CSVUpload, updateRowMutation and deleteRowsMutation in the
                \* grid, resetPasswordMutation in ResetPasswordPage)
    requests,   \* the requests the workflow sent to the backend, in order (in
                \* CSVUpload the files posted to /api/csv/upload)
    toasts,     \* the toast.error messages shown, in order
    currentPage,         \* HomePage: the page of the grid
    searchTerm,          \* HomePage: the text of the search box
    debouncedSearchTerm, \* HomePage: the search text the query uses
    response,   \* useCSVData: the last response of csvApi.getData (NoResponse when none)
    resultSize, \* the backend: the number of rows each search text matches
    data,         \* DataGrid: the rows displayed (the data prop)
    editingRow,   \* DataGrid: the id of the row being edited, or null
    editData,     \* DataGrid: the edited copy of that row ({} when none)
    selectedRows, \* DataGrid: the ids of the rows checked, in the order of the Set
    newPassword,     \* ResetPasswordPage: the new password typed (its state password)
    confirmPassword, \* ResetPasswordPage: its confirmation
    isSubmitted      \* ResetPasswordPage: whether the success page is shown

vars == <<fn, arg, ret, pc, selected, inputValue, mutation, requests, toasts,
          currentPage, searchTerm, debouncedSearchTerm, response, resultSize,
          data, editingRow, editData, selectedRows,
          newPassword, confirmPassword, isSubmitted>>

(***************************************************************************)
(* Bounds of the model.                                                    *)
(***************************************************************************)
MaxStrLen == 3
MaxNum == 11
MaxHeaders == 4
MaxCells == 4
MaxTextLen == 6
MaxUploads == 2
MaxToasts == 2
MaxRowFields == 3
MaxPasswordLen == 8
MaxCheckLen == 5
MaxErrors == 5
MaxSaves == 2
MaxDeletes == 2
MaxResets == 2
MaxTotal == 201
MaxPage == 4

(***************************************************************************)
(* JavaScript strings and values.                                          *)
(***************************************************************************)
JsNull == [t |-> "null", v |-> 0]
JsUndefined == [t |-> "undefined", v |-> 0]
JsStr(s) == [t |-> "string", v |-> s]
JsNum(n) == [t |-> "number", v |-> n]
\* An object that is no string (a function, Object.prototype), identified by the
\* text String() gives for it.
JsObj(name) == [t |-> "object", v |-> name]

IsNullish(x) == x.t = "null" \/ x.t = "undefined"

Digits == <<"0", "1", "2", "3", "4", "5", "6", "7", "8", "9">>

RECURSIVE NatToString(_)
NatToString(n) ==
    IF n < 10 THEN <<Digits[n + 1]>>
    ELSE NatToString(n \div 10) \o <<Digits[(n % 10) + 1]>>

\* String(value) for the values of the model.
ToJsString(x) ==
    CASE x.t = "string" -> x.v
      [] x.t = "number" -> IF x.v < 0 THEN <<"-">> \o NatToString(-x.v)
                           ELSE NatToString(x.v)
      [] x.t = "null" -> <<"n", "u", "l", "l">>
      [] x.t = "undefined" -> <<"u", "n", "d", "e", "f", "i", "n", "e", "d">>
      [] x.t = "object" -> x.v

\* String.prototype.startsWith
StartsWith(s, p) == Len(s) >= Len(p) /\ SubSeq(s, 1, Len(p)) = p

\* String.prototype.endsWith
EndsWith(s, p) == Len(s) >= Len(p) /\ SubSeq(s, Len(s) - Len(p) + 1, Len(s)) = p

\* String.prototype.includes for a one-character needle
Includes(s, c) == \E i \in 1..Len(s) : s[i] = c

\* String.prototype.includes for a string needle
IncludesString(s, sub) ==
    \E i \in 0..(Len(s) - Len(sub)) : SubSeq(s, i + 1, i + Len(sub)) = sub

\* String.prototype.replace(/"/g, '""') generalised: every c becomes r.
RECURSIVE ReplaceAll(_, _, _)
ReplaceAll(s, c, r) ==
    IF s = <<>> THEN <<>>
    ELSE (IF Head(s) = c THEN r ELSE <<Head(s)>>) \o ReplaceAll(Tail(s), c, r)

UpperChars == <<"A", "B", "C", "D", "E", "F", "G", "H", "I", "J", "K", "L", "M",
                "N", "O", "P", "Q", "R", "S", "T", "U", "V", "W", "X", "Y", "Z">>
LowerChars == <<"a", "b", "c", "d", "e", "f", "g", "h", "i", "j", "k", "l", "m",
                "n", "o", "p", "q", "r", "s", "t", "u", "v", "w", "x", "y", "z">>

UpperToLower ==
    [c \in {UpperChars[i] : i \in 1..26} |->
        LowerChars[CHOOSE i \in 1..26 : UpperChars[i] = c]]

LowerToUpper ==
    [c \in {LowerChars[i] : i \in 1..26} |->
        UpperChars[CHOOSE i \in 1..26 : LowerChars[i] = c]]

ToLowerChar(c) == IF c \in DOMAIN UpperToLower THEN UpperToLower[c] ELSE c

ToUpperChar(c) == IF c \in DOMAIN LowerToUpper THEN LowerToUpper[c] ELSE c

\* String.prototype.toLowerCase
ToLowerCase(s) == [i \in 1..Len(s) |-> ToLowerChar(s[i])]

\* String.prototype.toUpperCase (used to build inputs only)
ToUpperCase(s) == [i \in 1..Len(s) |-> ToUpperChar(s[i])]

WhiteSpace == {" ", "\t", "\n", "\r"}

RECURSIVE TrimStart(_)
TrimStart(s) ==
    IF s # <<>> /\ Head(s) \in WhiteSpace THEN TrimStart(Tail(s)) ELSE s

RECURSIVE TrimEnd(_)
TrimEnd(s) ==
    IF s # <<>> /\ s[Len(s)] \in WhiteSpace
    THEN TrimEnd(SubSeq(s, 1, Len(s) - 1))
    ELSE s

\* String.prototype.trim
Trim(s) == TrimEnd(TrimStart(s))

\* The key of the accessor property Object.prototype.__proto__.
ProtoKey == <<"_", "_", "p", "r", "o", "t", "o", "_", "_">>

\* The elements of a list.
Range(seq) == {seq[i] : i \in 1..Len(seq)}

\* All strings over alphabet of length at most n.
StringsUpTo(alphabet, n) == UNION {[1..k -> alphabet] : k \in 0..n}

(***************************************************************************)
(* csvSafety.ts                                                            *)
(***************************************************************************)
FORMULA_INJECTION_PREFIXES == <<<<"=">>, <<"+">>, <<"-">>, <<"@">>, <<"\t">>, <<"\r">>>>

\* A bug: the carriage return is left out of the prefixes, and the quote is
\* appended instead of prefixed.
sanitizeCSVValueAppends(value) ==
    IF IsNullish(value) THEN <<>>
    ELSE LET stringValue == ToJsString(value)
         IN  IF \E i \in 1..Len(FORMULA_INJECTION_PREFIXES) :
                    StartsWith(stringValue, FORMULA_INJECTION_PREFIXES[i])
             THEN stringValue \o <<"'">>
             ELSE stringValue

\* A bug: every value is given the quote, safe or not.
sanitizeCSVValueAlwaysQuotes(value) ==
    IF IsNullish(value) THEN <<>>
    ELSE <<"'">> \o ToJsString(value)

sanitizeCSVValue(value) ==
    IF IsNullish(value) THEN <<>>
    ELSE LET stringValue == ToJsString(value)
         IN  IF \E i \in 1..Len(FORMULA_INJECTION_PREFIXES) :
                    StartsWith(stringValue, FORMULA_INJECTION_PREFIXES[i])
             THEN <<"'">> \o stringValue
             ELSE stringValue

\* key === "id" || key === "created_at" || key === "updated_at"
SystemFields ==
    {<<"i", "d">>,
     <<"c", "r", "e", "a", "t", "e", "d", "_", "a", "t">>,
     <<"u", "p", "d", "a", "t", "e", "d", "_", "a", "t">>}

\* A row object is a function from its own keys to their values.  The loop
\* assigns sanitizedRow[key] once for each own key of row; the keys are
\* distinct, so the order of the assignments does not show in the result.  An
\* assignment to the key __proto__ of an object literal reaches the setter
\* inherited from Object.prototype, which ignores a string: it adds no key.
sanitizeCSVRow(row) ==
    [key \in DOMAIN row \ {ProtoKey} |->
        IF key \in SystemFields THEN row[key]
        ELSE JsStr(sanitizeCSVValue(row[key]))]

\* A bug: the quotes inside the field are not doubled before the wrapping.
escapeCSVFieldNoDoubling(value) ==
    IF IsNullish(value) THEN <<>>
    ELSE LET sanitized == sanitizeCSVValue(JsStr(ToJsString(value)))
         IN  IF \/ Includes(sanitized, ",")
                \/ Includes(sanitized, "\n")
                \/ Includes(sanitized, "\r")
                \/ Includes(sanitized, "\"")
             THEN <<"\"">> \o sanitized \o <<"\"">>
             ELSE sanitized

\* A bug: a line break alone does not get the field wrapped.
escapeCSVFieldNoLineBreaks(value) ==
    IF IsNullish(value) THEN <<>>
    ELSE LET sanitized == sanitizeCSVValue(JsStr(ToJsString(value)))
             escaped == ReplaceAll(sanitized, "\"", <<"\"", "\"">>)
         IN  IF Includes(escaped, ",") \/ Includes(escaped, "\"")
             THEN <<"\"">> \o escaped \o <<"\"">>
             ELSE escaped

escapeCSVField(value) ==
    IF IsNullish(value) THEN <<>>
    ELSE LET stringValue == ToJsString(value)
             sanitized == sanitizeCSVValue(JsStr(stringValue))
             escaped == ReplaceAll(sanitized, "\"", <<"\"", "\"">>)
         IN  IF \/ Includes(escaped, ",")
                \/ Includes(escaped, "\n")
                \/ Includes(escaped, "\r")
                \/ Includes(escaped, "\"")
             THEN <<"\"">> \o escaped \o <<"\"">>
             ELSE escaped

StartsWithText == <<"V", "a", "l", "u", "e", " ", "s", "t", "a", "r", "t", "s", " ", "w", "i", "t", "h", " ", "'">>
WillBePrefixedText == <<"'", " ", "-", " ", "w", "i", "l", "l", " ", "b", "e", " ", "p", "r", "e", "f", "i", "x", "e", "d", " ", "w", "i", "t", "h", " ", "s", "i", "n", "g", "l", "e", " ", "q", "u", "o", "t", "e", " ", "f", "o", "r", " ", "s", "a", "f", "e", "t", "y">>
DangerousFunctionsText == <<"V", "a", "l", "u", "e", " ", "c", "o", "n", "t", "a", "i", "n", "s", " ", "p", "o", "t", "e", "n", "t", "i", "a", "l", "l", "y", " ", "d", "a", "n", "g", "e", "r", "o", "u", "s", " ", "E", "x", "c", "e", "l", " ", "f", "u", "n", "c", "t", "i", "o", "n", "s">>
VeryLongText == <<"V", "a", "l", "u", "e", " ", "i", "s", " ", "v", "e", "r", "y", " ", "l", "o", "n", "g", " ", "a", "n", "d", " ", "m", "a", "y", " ", "c", "a", "u", "s", "e", " ", "p", "e", "r", "f", "o", "r", "m", "a", "n", "c", "e", " ", "i", "s", "s", "u", "e", "s">>
HyperlinkCall == <<"=", "H", "Y", "P", "E", "R", "L", "I", "N", "K", "(">>
ImportXmlCall == <<"=", "I", "M", "P", "O", "R", "T", "X", "M", "L", "(">>
WebServiceCall == <<"=", "W", "E", "B", "S", "E", "R", "V", "I", "C", "E", "(">>
LongValueLength == 10000

\* validateCSVContent for a string; isSafe is set to false by the first two
\* tests and left alone by the third.
validateCSVContent(value) ==
    LET startsWithPrefix ==
            \E i \in 1..Len(FORMULA_INJECTION_PREFIXES) :
                StartsWith(value, FORMULA_INJECTION_PREFIXES[i])
        containsFunction ==
            \/ IncludesString(value, HyperlinkCall)
            \/ IncludesString(value, ImportXmlCall)
            \/ IncludesString(value, WebServiceCall)
        prefixWarning ==
            IF startsWithPrefix
            THEN <<StartsWithText \o <<value[1]>> \o WillBePrefixedText>>
            ELSE <<>>
        functionWarning ==
            IF containsFunction THEN <<DangerousFunctionsText>> ELSE <<>>
        lengthWarning ==
            IF Len(value) > LongValueLength THEN <<VeryLongText>> ELSE <<>>
    IN  [isSafe |-> ~startsWithPrefix /\ ~containsFunction,
         warnings |-> prefixWarning \o functionWarning \o lengthWarning,
         sanitized |-> sanitizeCSVValue(JsStr(value))]

(***************************************************************************)
(* headerValidation.ts                                                     *)
(***************************************************************************)
PartMark == <<"P", "a", "r", "t", "M", "a", "r", "k">>
AssemblyMark == <<"A", "s", "s", "e", "m", "b", "l", "y", "M", "a", "r", "k">>
Material == <<"M", "a", "t", "e", "r", "i", "a", "l">>
Thickness == <<"T", "h", "i", "c", "k", "n", "e", "s", "s">>

REQUIRED_HEADERS == <<PartMark, AssemblyMark, Material, Thickness>>

\* The own properties of the HEADER_ALIASES object: <<key, value>>.
HEADER_ALIASES ==
    << <<<<"p", "a", "r", "t", "_", "m", "a", "r", "k">>, PartMark>>,
       <<<<"p", "a", "r", "t", "m", "a", "r", "k">>, PartMark>>,
       <<<<"p", "a", "r", "t", "-", "m", "a", "r", "k">>, PartMark>>,
       <<<<"p", "a", "r", "t", " ", "m", "a", "r", "k">>, PartMark>>,
       <<<<"a", "s", "s", "e", "m", "b", "l", "y", "_", "m", "a", "r", "k">>, AssemblyMark>>,
       <<<<"a", "s", "s", "e", "m", "b", "l", "y", "m", "a", "r", "k">>, AssemblyMark>>,
       <<<<"a", "s", "s", "e", "m", "b", "l", "y", "-", "m", "a", "r", "k">>, AssemblyMark>>,
       <<<<"a", "s", "s", "e", "m", "b", "l", "y", " ", "m", "a", "r", "k">>, AssemblyMark>>,
       <<<<"m", "a", "t", "e", "r", "i", "a", "l">>, Material>>,
       <<<<"m", "a", "t", "e", "r", "i", "a", "l", "s">>, Material>>,
       <<<<"t", "h", "i", "c", "k", "n", "e", "s", "s">>, Thickness>>,
       <<<<"t", "h", "i", "c", "k">>, Thickness>>,
       <<<<"t", "h", "i", "c", "k", "n", "e", "s">>, Thickness>> >>

\* The text String() gives for a native function.
NativeFunction(name) ==
    <<"f", "u", "n", "c", "t", "i", "o", "n", " ">> \o name \o <<"(", ")", " ", "{", " ", "[", "n", "a", "t", "i", "v", "e", " ", "c", "o", "d", "e", "]", " ", "}">>

\* A plain object (HEADER_ALIASES, a row) inherits the properties of
\* Object.prototype: a lookup object[key] that finds no own property finds
\* these, each an object, which is truthy.  <<key, value>>.
ObjectPrototype ==
    << <<ProtoKey, JsObj(<<"[", "o", "b", "j", "e", "c", "t", " ", "O", "b", "j", "e", "c", "t", "]">>)>>,
       <<<<"c", "o", "n", "s", "t", "r", "u", "c", "t", "o", "r">>,
         JsObj(NativeFunction(<<"O", "b", "j", "e", "c", "t">>))>>,
       <<<<"_", "_", "d", "e", "f", "i", "n", "e", "G", "e", "t", "t", "e", "r", "_", "_">>,
         JsObj(NativeFunction(<<"_", "_", "d", "e", "f", "i", "n", "e", "G", "e", "t", "t", "e", "r", "_", "_">>))>>,
       <<<<"_", "_", "d", "e", "f", "i", "n", "e", "S", "e", "t", "t", "e", "r", "_", "_">>,
         JsObj(NativeFunction(<<"_", "_", "d", "e", "f", "i", "n", "e", "S", "e", "t", "t", "e", "r", "_", "_">>))>>,
       <<<<"_", "_", "l", "o", "o", "k", "u", "p", "G", "e", "t", "t", "e", "r", "_", "_">>,
         JsObj(NativeFunction(<<"_", "_", "l", "o", "o", "k", "u", "p", "G", "e", "t", "t", "e", "r", "_", "_">>))>>,
       <<<<"_", "_", "l", "o", "o", "k", "u", "p", "S", "e", "t", "t", "e", "r", "_", "_">>,
         JsObj(NativeFunction(<<"_", "_", "l", "o", "o", "k", "u", "p", "S", "e", "t", "t", "e", "r", "_", "_">>))>>,
       <<<<"h", "a", "s", "O", "w", "n", "P", "r", "o", "p", "e", "r", "t", "y">>,
         JsObj(NativeFunction(<<"h", "a", "s", "O", "w", "n", "P", "r", "o", "p", "e", "r", "t", "y">>))>>,
       <<<<"i", "s", "P", "r", "o", "t", "o", "t", "y", "p", "e", "O", "f">>,
         JsObj(NativeFunction(<<"i", "s", "P", "r", "o", "t", "o", "t", "y", "p", "e", "O", "f">>))>>,
       <<<<"p", "r", "o", "p", "e", "r", "t", "y", "I", "s", "E", "n", "u", "m", "e", "r", "a", "b", "l", "e">>,
         JsObj(NativeFunction(<<"p", "r", "o", "p", "e", "r", "t", "y", "I", "s", "E", "n", "u", "m", "e", "r", "a", "b", "l", "e">>))>>,
       <<<<"t", "o", "L", "o", "c", "a", "l", "e", "S", "t", "r", "i", "n", "g">>,
         JsObj(NativeFunction(<<"t", "o", "L", "o", "c", "a", "l", "e", "S", "t", "r", "i", "n", "g">>))>>,
       <<<<"t", "o", "S", "t", "r", "i", "n", "g">>,
         JsObj(NativeFunction(<<"t", "o", "S", "t", "r", "i", "n", "g">>))>>,
       <<<<"v", "a", "l", "u", "e", "O", "f">>,
         JsObj(NativeFunction(<<"v", "a", "l", "u", "e", "O", "f">>))>> >>

HasKey(table, key) == \E i \in 1..Len(table) : table[i][1] = key

Lookup(table, key) == table[CHOOSE i \in 1..Len(table) : table[i][1] = key][2]

\* req.toLowerCase(), for each required header.
RequiredLower == [i \in 1..Len(REQUIRED_HEADERS) |-> ToLowerCase(REQUIRED_HEADERS[i])]

\* Array.prototype.find over the required headers: the first index whose
\* lowercased name is lower, 0 when there is none.
RequiredMatchIndex(lower) ==
    IF \E i \in 1..Len(REQUIRED_HEADERS) : RequiredLower[i] = lower
    THEN CHOOSE i \in 1..Len(REQUIRED_HEADERS) :
            /\ RequiredLower[i] = lower
            /\ \A j \in 1..(i - 1) : RequiredLower[j] # lower
    ELSE 0

\* A bug: the alias table is consulted with the header as typed, not lowercased.
normalizeHeaderCaseSensitiveAlias(header) ==
    LET trimmed == Trim(header)
        lower == ToLowerCase(trimmed)
    IN  IF RequiredMatchIndex(lower) # 0
        THEN JsStr(REQUIRED_HEADERS[RequiredMatchIndex(lower)])
        ELSE IF HasKey(HEADER_ALIASES, trimmed)
        THEN JsStr(Lookup(HEADER_ALIASES, trimmed))
        ELSE JsStr(trimmed)

\* The value normalizeHeader returns: a JavaScript value, a string unless the
\* alias lookup found an inherited property.
normalizeHeader(header) ==
    LET trimmed == Trim(header)
        lower == ToLowerCase(trimmed)
    IN  IF RequiredMatchIndex(lower) # 0
        THEN JsStr(REQUIRED_HEADERS[RequiredMatchIndex(lower)])
        ELSE IF HasKey(HEADER_ALIASES, lower)
        THEN JsStr(Lookup(HEADER_ALIASES, lower))
        ELSE IF HasKey(ObjectPrototype, lower)
        THEN Lookup(ObjectPrototype, lower)
        ELSE JsStr(trimmed)

\* a === b
StrictEquals(a, b) == a.t = b.t /\ a.v = b.v

\* Array.prototype.filter
Filter(seq, Keep(_, _)) ==
    LET kept[i \in 0..Len(seq)] ==
            IF i = 0 THEN <<>>
            ELSE IF Keep(seq[i], i) THEN Append(kept[i - 1], seq[i])
            ELSE kept[i - 1]
    IN  kept[Len(seq)]

\* Array.prototype.join of strings
RECURSIVE Join(_, _)
Join(strs, sep) ==
    IF strs = <<>> THEN <<>>
    ELSE IF Len(strs) = 1 THEN strs[1]
    ELSE strs[1] \o sep \o Join(Tail(strs), sep)

\* Array.prototype.indexOf (strict equality), 1-based; 0 when absent.
IndexOf(seq, x) ==
    IF \E i \in 1..Len(seq) : StrictEquals(seq[i], x)
    THEN CHOOSE i \in 1..Len(seq) :
            /\ StrictEquals(seq[i], x)
            /\ \A j \in 1..(i - 1) : ~StrictEquals(seq[j], x)
    ELSE 0

\* String.prototype.split(/\s+/): the pieces between the runs of white space; a
\* run at either end leaves an empty piece there.
RECURSIVE SplitWords(_, _)
SplitWords(s, word) ==
    IF s = <<>> THEN <<word>>
    ELSE IF Head(s) \in WhiteSpace THEN <<word>> \o SplitWords(TrimStart(s), <<>>)
    ELSE SplitWords(Tail(s), Append(word, Head(s)))

\* The confidence levels, in tenths.
ConfidenceExact == 10
ConfidencePartial == 7
ConfidenceSimilar == 5
ConfidenceNone == 0

\* lower.includes(requiredLower) || requiredLower.includes(lower)
ContainsEitherWay(lower, requiredLower) ==
    IncludesString(lower, requiredLower) \/ IncludesString(requiredLower, lower)

\* requiredWords.filter(word => headerWords.some(hWord =>
\*     hWord.includes(word) || word.includes(hWord)))
CommonWords(lower, requiredLower) ==
    LET requiredWords == SplitWords(requiredLower, <<>>)
        headerWords == SplitWords(lower, <<>>)
        Shared(word, index) ==
            \E k \in 1..Len(headerWords) :
                \/ IncludesString(headerWords[k], word)
                \/ IncludesString(word, headerWords[k])
    IN  Filter(requiredWords, Shared)

\* The confidence one pass of the loop over the required headers returns with,
\* ConfidenceNone when the pass falls through to the next required header.
PartialLevel(lower, requiredLower) ==
    IF ContainsEitherWay(lower, requiredLower) THEN ConfidencePartial
    ELSE IF Len(CommonWords(lower, requiredLower)) > 0 THEN ConfidenceSimilar
    ELSE ConfidenceNone

fuzzyMatchHeader(header) ==
    LET normalized == normalizeHeader(header)
        lower == ToLowerCase(header)
        hits == {i \in 1..Len(REQUIRED_HEADERS) :
                    PartialLevel(lower, RequiredLower[i]) # ConfidenceNone}
    IN  IF \E i \in 1..Len(REQUIRED_HEADERS) :
              StrictEquals(normalized, JsStr(REQUIRED_HEADERS[i]))
        THEN [isMatch |-> TRUE, suggestedHeader |-> normalized,
              confidence |-> ConfidenceExact]
        ELSE IF hits # {}
        THEN LET first == CHOOSE i \in hits : \A j \in hits : i <= j
             IN  [isMatch |-> FALSE,
                  suggestedHeader |-> JsStr(REQUIRED_HEADERS[first]),
                  confidence |-> PartialLevel(lower, RequiredLower[first])]
        ELSE [isMatch |-> FALSE, suggestedHeader |-> JsNull,
              confidence |-> ConfidenceNone]

\* A bug: a header that only looks like a required header is accepted for it.
validateRequiredHeadersFuzzy(headers) ==
    LET normalized == [i \in 1..Len(headers) |-> normalizeHeader(headers[i])]
        Missing(required, i) ==
            ~\E k \in 1..Len(headers) :
                StrictEquals(fuzzyMatchHeader(headers[k]).suggestedHeader, JsStr(required))
        missingHeaders == Filter(REQUIRED_HEADERS, Missing)
    IN  [isValid |-> Len(missingHeaders) = 0,
         missingHeaders |-> missingHeaders,
         normalizedHeaders |-> normalized,
         warnings |-> <<>>]

\* A bug: a duplicate header makes the header list invalid.
validateRequiredHeadersDuplicatesFatal(headers) ==
    LET normalized == [i \in 1..Len(headers) |-> normalizeHeader(headers[i])]
        Missing(required, i) ==
            ~\E k \in 1..Len(normalized) : StrictEquals(normalized[k], JsStr(required))
        missingHeaders == Filter(REQUIRED_HEADERS, Missing)
        IsDuplicate(header, index) == IndexOf(normalized, header) # index
        duplicates == Filter(normalized, IsDuplicate)
    IN  [isValid |-> Len(missingHeaders) = 0 /\ Len(duplicates) = 0,
         missingHeaders |-> missingHeaders,
         normalizedHeaders |-> normalized,
         warnings |-> <<>>]

DuplicateHeadersText == <<"D", "u", "p", "l", "i", "c", "a", "t", "e", " ", "h", "e", "a", "d", "e", "r", "s", " ", "f", "o", "u", "n", "d", ":", " ">>
EmptyHeadersText == <<" ", "e", "m", "p", "t", "y", " ", "h", "e", "a", "d", "e", "r", "(", "s", ")", " ", "f", "o", "u", "n", "d">>

validateRequiredHeaders(headers) ==
    LET normalized == [i \in 1..Len(headers) |-> normalizeHeader(headers[i])]
        Missing(required, i) ==
            ~\E k \in 1..Len(normalized) : StrictEquals(normalized[k], JsStr(required))
        missingHeaders == Filter(REQUIRED_HEADERS, Missing)
        IsDuplicate(header, index) == IndexOf(normalized, header) # index
        duplicates == Filter(normalized, IsDuplicate)
        IsEmpty(header, index) == Trim(header) = <<>>
        emptyHeaders == Filter(headers, IsEmpty)
        duplicateWarning ==
            IF Len(duplicates) > 0
            THEN << DuplicateHeadersText
                    \o Join([i \in 1..Len(duplicates) |-> ToJsString(duplicates[i])],
                            <<",", " ">>) >>
            ELSE <<>>
        emptyWarning ==
            IF Len(emptyHeaders) > 0
            THEN << NatToString(Len(emptyHeaders)) \o EmptyHeadersText >>
            ELSE <<>>
    IN  [isValid |-> Len(missingHeaders) = 0,
         missingHeaders |-> missingHeaders,
         normalizedHeaders |-> normalized,
         warnings |-> duplicateWarning \o emptyWarning]

MissingHeaderText == <<"M", "i", "s", "s", "i", "n", "g", " ", "r", "e", "q", "u", "i", "r", "e", "d", " ", "h", "e", "a", "d", "e", "r", ":", " ">>
MissingHeadersText == <<"M", "i", "s", "s", "i", "n", "g", " ", "r", "e", "q", "u", "i", "r", "e", "d", " ", "h", "e", "a", "d", "e", "r", "s", ":", " ">>
AndText == <<" ", "a", "n", "d", " ">>

\* A bug: the last header is joined with a comma like the others.
createMissingHeadersMessageCommaOnly(missingHeaders) ==
    IF Len(missingHeaders) = 0 THEN <<>>
    ELSE IF Len(missingHeaders) = 1 THEN MissingHeaderText \o missingHeaders[1]
    ELSE MissingHeadersText \o Join(missingHeaders, <<",", " ">>)

createMissingHeadersMessage(missingHeaders) ==
    IF Len(missingHeaders) = 0 THEN <<>>
    ELSE IF Len(missingHeaders) = 1 THEN MissingHeaderText \o missingHeaders[1]
    ELSE LET lastHeader == missingHeaders[Len(missingHeaders)]
             otherHeaders == SubSeq(missingHeaders, 1, Len(missingHeaders) - 1)
         IN  MissingHeadersText \o Join(otherHeaders, <<",", " ">>)
                 \o AndText \o lastHeader

\* headers.findIndex((h) => normalizeHeader(h) === required), 1-based; 0 for -1.
FindHeaderIndex(headers, required) ==
    LET matches == {i \in 1..Len(headers) :
                       StrictEquals(normalizeHeader(headers[i]), JsStr(required))}
    IN  IF matches = {} THEN 0
        ELSE CHOOSE i \in matches : \A j \in matches : i <= j

\* row[key] of a row object, a function from its own keys to their values: an
\* own property, else an inherited one, else undefined.
RowGet(row, key) ==
    IF key \in DOMAIN row THEN row[key]
    ELSE IF HasKey(ObjectPrototype, key) THEN Lookup(ObjectPrototype, key)
    ELSE JsUndefined

\* value === null || value === undefined || String(value).trim() === ""
IsEmptyValue(value) == IsNullish(value) \/ Trim(ToJsString(value)) = <<>>

\* A bug: a required header that is not in the list is looked up in the row
\* all the same, where it reads undefined.
validateRowDataNoMissingCheck(row, headers) ==
    LET IsEmptyField(required, i) ==
            \/ FindHeaderIndex(headers, required) = 0
            \/ IsEmptyValue(RowGet(row, headers[FindHeaderIndex(headers, required)]))
        emptyRequiredFields == Filter(REQUIRED_HEADERS, IsEmptyField)
    IN  [isValid |-> Len(emptyRequiredFields) = 0,
         missingFields |-> <<>>,
         emptyRequiredFields |-> emptyRequiredFields]

\* A bug: the loop stops at the first empty required field.
validateRowDataFirstEmptyOnly(row, headers) ==
    LET IsMissing(required, i) == FindHeaderIndex(headers, required) = 0
        IsEmptyField(required, i) ==
            /\ FindHeaderIndex(headers, required) # 0
            /\ IsEmptyValue(RowGet(row, headers[FindHeaderIndex(headers, required)]))
        missingFields == Filter(REQUIRED_HEADERS, IsMissing)
        allEmpty == Filter(REQUIRED_HEADERS, IsEmptyField)
        emptyRequiredFields == IF allEmpty = <<>> THEN <<>> ELSE <<allEmpty[1]>>
    IN  [isValid |-> Len(missingFields) = 0 /\ Len(emptyRequiredFields) = 0,
         missingFields |-> missingFields,
         emptyRequiredFields |-> emptyRequiredFields]

validateRowData(row, headers) ==
    LET IsMissing(required, i) == FindHeaderIndex(headers, required) = 0
        IsEmptyField(required, i) ==
            /\ FindHeaderIndex(headers, required) # 0
            /\ IsEmptyValue(RowGet(row, headers[FindHeaderIndex(headers, required)]))
        missingFields == Filter(REQUIRED_HEADERS, IsMissing)
        emptyRequiredFields == Filter(REQUIRED_HEADERS, IsEmptyField)
    IN  [isValid |-> Len(missingFields) = 0 /\ Len(emptyRequiredFields) = 0,
         missingFields |-> missingFields,
         emptyRequiredFields |-> emptyRequiredFields]

EmptyValuesText == <<" ", "e", "m", "p", "t", "y", " ", "r", "e", "q", "u", "i", "r", "e", "d", " ", "v", "a", "l", "u", "e", "(", "s", ")", " ", "f", "o", "u", "n", "d", " ", "i", "n", " ", "d", "a", "t", "a", " ", "r", "o", "w", "s">>

\* The body of validateCSVDataRows' forEach for the row at zero-based index,
\* given the row number it uses: the tuples it pushes, in order.
RowErrors(row, rowNumber, headers) ==
    LET pushed[k \in 0..Len(REQUIRED_HEADERS)] ==
            IF k = 0 THEN <<>>
            ELSE LET required == REQUIRED_HEADERS[k]
                     headerIndex == FindHeaderIndex(headers, required)
                 IN  IF /\ headerIndex # 0
                        /\ IsEmptyValue(RowGet(row, headers[headerIndex]))
                     THEN Append(pushed[k - 1],
                                 [rowNumber |-> rowNumber,
                                  field |-> required,
                                  value |-> RowGet(row, headers[headerIndex])])
                     ELSE pushed[k - 1]
    IN  pushed[Len(REQUIRED_HEADERS)]

\* A bug: the row number counts the data rows from 1, forgetting the header line.
validateCSVDataRowsOffByOne(csvData, headers) ==
    LET errors[n \in 0..Len(csvData)] ==
            IF n = 0 THEN <<>>
            ELSE errors[n - 1] \o RowErrors(csvData[n], (n - 1) + 1, headers)
        emptyValueErrors == errors[Len(csvData)]
    IN  [isValid |-> Len(emptyValueErrors) = 0,
         emptyValueErrors |-> emptyValueErrors,
         totalErrors |-> Len(emptyValueErrors),
         warnings |-> <<>>]

validateCSVDataRows(csvData, headers) ==
    LET errors[n \in 0..Len(csvData)] ==
            IF n = 0 THEN <<>>
            ELSE errors[n - 1] \o RowErrors(csvData[n], (n - 1) + 2, headers)
        emptyValueErrors == errors[Len(csvData)]
    IN  [isValid |-> Len(emptyValueErrors) = 0,
         emptyValueErrors |-> emptyValueErrors,
         totalErrors |-> Len(emptyValueErrors),
         warnings |-> IF Len(emptyValueErrors) > 0
                      THEN <<NatToString(Len(emptyValueErrors)) \o EmptyValuesText>>
                      ELSE <<>>]

RowText == <<"R", "o", "w", " ">>
MissingText == <<":", " ", "M", "i", "s", "s", "i", "n", "g", " ">>
MoreRowsText == <<" ", "m", "o", "r", "e", " ", "r", "o", "w", "(", "s", ")">>
MaxRowMessages == 3

\* Object.entries(errorsByRow) lists the keys that are array indices, as the
\* row numbers are, in ascending numeric order: the row numbers of the errors,
\* each once, ascending.
EntryKeys(emptyValueErrors) ==
    LET keys == {emptyValueErrors[i].rowNumber : i \in 1..Len(emptyValueErrors)}
        below(n) == {k \in keys : k < n}
    IN  [i \in 1..Cardinality(keys) |->
            CHOOSE n \in keys : Cardinality(below(n)) = i - 1]

\* errorsByRow[rowNumber] after the reduce: the fields of the errors with this
\* row number, in the order of the array.
FieldsOfRow(emptyValueErrors, rowNumber) ==
    LET pushed[i \in 0..Len(emptyValueErrors)] ==
            IF i = 0 THEN <<>>
            ELSE IF emptyValueErrors[i].rowNumber = rowNumber
                 THEN Append(pushed[i - 1], emptyValueErrors[i].field)
                 ELSE pushed[i - 1]
    IN  pushed[Len(emptyValueErrors)]

\* The errorMessages of createEmptyValuesMessage.
ErrorMessages(emptyValueErrors) ==
    LET keys == EntryKeys(emptyValueErrors)
    IN  [i \in 1..Len(keys) |->
            LET fields == FieldsOfRow(emptyValueErrors, keys[i])
            IN  IF Len(fields) = 1
                THEN RowText \o NatToString(keys[i]) \o MissingText \o fields[1]
                ELSE RowText \o NatToString(keys[i]) \o MissingText
                         \o Join(fields, <<",", " ">>)]

\* A bug: every row message is shown, however many there are.
createEmptyValuesMessageShowsAll(emptyValueErrors) ==
    IF Len(emptyValueErrors) = 0 THEN <<>>
    ELSE Join(ErrorMessages(emptyValueErrors), <<";", " ">>)

createEmptyValuesMessage(emptyValueErrors) ==
    IF Len(emptyValueErrors) = 0 THEN <<>>
    ELSE LET errorMessages == ErrorMessages(emptyValueErrors)
         IN  IF Len(errorMessages) <= MaxRowMessages
             THEN Join(errorMessages, <<";", " ">>)
             ELSE Join(SubSeq(errorMessages, 1, MaxRowMessages), <<";", " ">>)
                      \o AndText
                      \o NatToString(Len(errorMessages) - MaxRowMessages)
                      \o MoreRowsText

\* String.prototype.split for a one-character separator.
RECURSIVE Split(_, _)
Split(s, sep) ==
    IF ~Includes(s, sep) THEN <<s>>
    ELSE LET i == CHOOSE i \in 1..Len(s) :
                     s[i] = sep /\ \A j \in 1..(i - 1) : s[j] # sep
         IN  <<SubSeq(s, 1, i - 1)>> \o Split(SubSeq(s, i + 1, Len(s)), sep)

QuoteChars == {"\"", "'"}

\* token.replace(/^["']|["']$/g, ""): a quote at the start is removed, and a
\* quote at the end of what is left is removed.
StripQuotes(token) ==
    LET rest == IF token # <<>> /\ Head(token) \in QuoteChars THEN Tail(token)
                ELSE token
    IN  IF rest # <<>> /\ rest[Len(rest)] \in QuoteChars
        THEN SubSeq(rest, 1, Len(rest) - 1)
        ELSE rest

\* line.split(",").map((value) => value.trim().replace(/^["']|["']$/g, ""))
SplitFields(line) ==
    LET tokens == Split(line, ",")
    IN  [k \in 1..Len(tokens) |-> StripQuotes(Trim(tokens[k]))]

\* row[key] = value on a plain object: the __proto__ setter ignores a string.
RowSet(row, key, value) ==
    IF key = ProtoKey THEN row
    ELSE [h \in DOMAIN row \cup {key} |-> IF h = key THEN value ELSE row[h]]

\* values[index] || ""
ValueOrEmpty(values, k) ==
    IF k <= Len(values) /\ values[k] # <<>> THEN JsStr(values[k]) ELSE JsStr(<<>>)

\* A bug: a value the line lacks is left undefined.
CreateRowNoDefault(headers, values) ==
    LET row[k \in 0..Len(headers)] ==
            IF k = 0 THEN <<>>
            ELSE RowSet(row[k - 1], headers[k],
                        IF k <= Len(values) THEN JsStr(values[k]) ELSE JsUndefined)
    IN  row[Len(headers)]

\* headers.forEach((header, index) => { row[header] = values[index] || ""; })
CreateRow(headers, values) ==
    LET row[k \in 0..Len(headers)] ==
            IF k = 0 THEN <<>>
            ELSE RowSet(row[k - 1], headers[k], ValueOrEmpty(values, k))
    IN  row[Len(headers)]

ParseErrorText ==
    <<"C", "S", "V", " ", "f", "i", "l", "e", " ", "m", "u", "s", "t", " ", "c", "o", "n", "t", "a", "i", "n", " ", "a", "t", " ", "l", "e", "a", "s", "t", " ", "a", " ", "h", "e", "a", "d", "e", "r", " ", "r", "o", "w", " ", "a", "n", "d", " ", "o", "n", "e", " ", "d", "a", "t", "a", " ", "r", "o", "w">>

\* A bug: the lines are filtered without trimming, so a line of white space
\* counts as a line.
NonEmptyLinesUntrimmed(csvText) ==
    LET NotEmpty(line, i) == line # <<>>
    IN  Filter(Split(csvText, "\n"), NotEmpty)

\* csvText.split("\n").filter((line) => line.trim() !== "")
NonEmptyLines(csvText) ==
    LET NotEmpty(line, i) == Trim(line) # <<>>
    IN  Filter(Split(csvText, "\n"), NotEmpty)

parseCSVData(csvText) ==
    LET lines == NonEmptyLines(csvText)
    IN  IF Len(lines) < 2
        THEN [headers |-> <<>>, data |-> <<>>, errors |-> <<ParseErrorText>>]
        ELSE LET headers == SplitFields(Trim(lines[1]))
                 \* the data lines that are not skipped as empty
                 Kept(line, i) == i >= 2 /\ Trim(line) # <<>>
                 dataLines == Filter(lines, Kept)
             IN  [headers |-> headers,
                  data |-> [n \in 1..Len(dataLines) |->
                               CreateRow(headers, SplitFields(Trim(dataLines[n])))],
                  errors |-> <<>>]

(***************************************************************************)
(* The sanitizer's inputs: every string over SanAlphabet of length at most *)
(* MaxStrLen, the spec's example, the numbers -MaxNum..MaxNum, null and    *)
(* undefined.                                                              *)
(***************************************************************************)
SanAlphabet == {"=", "+", "-", "@", "\t", "\r", "\n", ",", "\"", "'", "a"}

ExampleFormula == <<"=", "S", "U", "M", "(", "A", "1", ":", "A", "2", ")">>
ExampleFormulaSanitized == <<"'", "=", "S", "U", "M", "(", "A", "1", ":", "A", "2", ")">>

SanValues ==
    {JsStr(s) : s \in StringsUpTo(SanAlphabet, MaxStrLen)
                       \cup {ExampleFormula, ExampleFormulaSanitized}}
    \cup {JsNum(n) : n \in (-MaxNum)..MaxNum}
    \cup {JsNull, JsUndefined}

NoFile == [name |-> <<>>, text |-> <<>>, present |-> FALSE]

\* The upload workflow at rest: what the utility specifications leave untouched.
UploadIdle ==
    /\ selected = NoFile
    /\ inputValue = <<>>
    /\ mutation = "idle"
    /\ requests = <<>>
    /\ toasts = <<>>

uploadVars == <<selected, inputValue, mutation, requests, toasts>>

NoResponse == [present |-> FALSE, page |-> 0, limit |-> 0, search |-> <<>>, total |-> 0]

\* The home page at rest: what the other specifications leave untouched.
HomeIdle ==
    /\ currentPage = 1
    /\ searchTerm = <<>>
    /\ debouncedSearchTerm = <<>>
    /\ response = NoResponse
    /\ resultSize = <<>>

homeVars == <<currentPage, searchTerm, debouncedSearchTerm, response, resultSize>>

\* The data grid at rest: what the other specifications leave untouched.
GridIdle ==
    /\ data = <<>>
    /\ editingRow = JsNull
    /\ editData = <<>>
    /\ selectedRows = <<>>

gridVars == <<data, editingRow, editData, selectedRows>>

\* The reset-password page at rest: what the other specifications leave untouched.
ResetIdle ==
    /\ newPassword = <<>>
    /\ confirmPassword = <<>>
    /\ isSubmitted = FALSE

resetVars == <<newPassword, confirmPassword, isSubmitted>>

PartMarkField == <<"p", "a", "r", "t", "_", "m", "a", "r", "k">>
NotesField == <<"n", "o", "t", "e", "s">>

\* The keys a row object may own: the system fields, two data fields and the
\* key __proto__, which an object built by JSON.parse can own.
SanRowKeys == SystemFields \cup {PartMarkField, NotesField, ProtoKey}

\* The values a field may hold.
SanRowValues ==
    {JsStr(<<>>), JsStr(<<"a">>), JsStr(<<"=", "a">>), JsStr(<<"-", "1">>),
     JsNum(7), JsNum(-1), JsNull, JsUndefined}

\* The row objects: at most MaxRowFields own keys.
SanRows ==
    UNION {[keys -> SanRowValues] :
              keys \in {k \in SUBSET SanRowKeys : Cardinality(k) <= MaxRowFields}}

\* The content scan's inputs: a function call or none, after a prefix and before
\* a suffix, and values around LongValueLength characters long.
ContentCores ==
    {<<>>, HyperlinkCall, ImportXmlCall, WebServiceCall,
     <<"=", "h", "y", "p", "e", "r", "l", "i", "n", "k", "(">>, <<"H", "Y", "P", "E", "R", "L", "I", "N", "K", "(">>, <<"=", "S", "U", "M", "(">>}

Fill(n) == [i \in 1..n |-> "a"]

ContentValues ==
    {p \o c \o e : p \in {<<>>, <<"a">>, <<"=">>, <<"'">>}, c \in ContentCores,
                    e \in {<<>>, <<"1", ")">>}}
    \cup {p \o Fill(n) : p \in {<<>>, <<"@">>, <<"a">> \o WebServiceCall},
                         n \in {LongValueLength, LongValueLength + 1}}

SanInit ==
    /\ \/ fn \in {"sanitizeCSVValue", "escapeCSVField"} /\ arg \in SanValues
       \/ fn = "sanitizeCSVRow" /\ arg \in SanRows
       \/ fn = "validateCSVContent" /\ arg \in ContentValues
    /\ ret = <<>>
    /\ pc = "call"
    /\ UploadIdle
    /\ HomeIdle
    /\ GridIdle
    /\ ResetIdle

CallSanitizeCSVValue ==
    /\ pc = "call"
    /\ fn = "sanitizeCSVValue"
    /\ ret' = sanitizeCSVValue(arg)
    /\ pc' = "done"
    /\ UNCHANGED <<fn, arg, uploadVars, homeVars, gridVars, resetVars>>

CallEscapeCSVField ==
    /\ pc = "call"
    /\ fn = "escapeCSVField"
    /\ ret' = escapeCSVField(arg)
    /\ pc' = "done"
    /\ UNCHANGED <<fn, arg, uploadVars, homeVars, gridVars, resetVars>>

\* The result is a new object; row is read, never assigned to.
CallSanitizeCSVRow ==
    /\ pc = "call"
    /\ fn = "sanitizeCSVRow"
    /\ ret' = sanitizeCSVRow(arg)
    /\ pc' = "done"
    /\ UNCHANGED <<fn, arg, uploadVars, homeVars, gridVars, resetVars>>

CallValidateCSVContent ==
    /\ pc = "call"
    /\ fn = "validateCSVContent"
    /\ ret' = validateCSVContent(arg)
    /\ pc' = "done"
    /\ UNCHANGED <<fn, arg, uploadVars, homeVars, gridVars, resetVars>>

SanNext ==
    \/ CallSanitizeCSVValue
    \/ CallEscapeCSVField
    \/ CallSanitizeCSVRow
    \/ CallValidateCSVContent

SpecSan == SanInit /\ [][SanNext]_vars

(***************************************************************************)
(* Claims about the sanitizer.                                             *)
(***************************************************************************)
FormulaTriggers == {"=", "+", "-", "@", "\t", "\r"}

Returned(f) == pc = "done" /\ fn = f

\* C1: for every string s whose first character is =, +, -, @, tab or carriage
\* return, sanitizeCSVValue(s) is a single quote followed by s, and nothing else.
C1_FormulaPrefixed ==
    (/\ Returned("sanitizeCSVValue")
     /\ arg.t = "string"
     /\ arg.v # <<>>
     /\ arg.v[1] \in FormulaTriggers)
    => /\ Len(ret) = Len(arg.v) + 1
       /\ ret[1] = "'"
       /\ \A i \in 1..Len(arg.v) : ret[i + 1] = arg.v[i]

\* C1's case: a carriage-return-led string of full length has been sanitized.
C1_Witness ==
    /\ Returned("sanitizeCSVValue")
    /\ arg.t = "string"
    /\ Len(arg.v) = MaxStrLen
    /\ arg.v[1] = "\r"
    /\ ret[1] = "'"


(***************************************************************************)
(* A quote-aware CSV reader's view of one field: a field enclosed in       *)
(* double quotes is unwrapped and its doubled quotes are undoubled.        *)
(***************************************************************************)
Wrapped(f) == Len(f) >= 2 /\ f[1] = "\"" /\ f[Len(f)] = "\""

Inner(f) == SubSeq(f, 2, Len(f) - 1)

RECURSIVE QuotesDoubled(_)
QuotesDoubled(s) ==
    IF s = <<>> THEN TRUE
    ELSE IF Head(s) = "\""
         THEN Len(s) >= 2 /\ s[2] = "\"" /\ QuotesDoubled(SubSeq(s, 3, Len(s)))
         ELSE QuotesDoubled(Tail(s))

RECURSIVE Undouble(_)
Undouble(s) ==
    IF s = <<>> THEN <<>>
    ELSE IF Len(s) >= 2 /\ s[1] = "\"" /\ s[2] = "\""
         THEN <<"\"">> \o Undouble(SubSeq(s, 3, Len(s)))
         ELSE <<Head(s)>> \o Undouble(Tail(s))

ReadField(f) == IF Wrapped(f) THEN Undouble(Inner(f)) ELSE f

\* The field escapeCSVField serializes: the value's string, with the quote
\* that neutralizes a leading formula trigger.
Neutralized(s) ==
    IF s # <<>> /\ s[1] \in FormulaTriggers THEN <<"'">> \o s ELSE s

\* C6, as stated: for every value containing a comma, escapeCSVField(value) is
\* wrapped in double quotes with every internal quote doubled, and reading the
\* field back yields the original value.
C6_RoundTripOriginal ==
    (Returned("escapeCSVField") /\ arg.t = "string" /\ Includes(arg.v, ","))
    => /\ Wrapped(ret)
       /\ QuotesDoubled(Inner(ret))
       /\ ReadField(ret) = arg.v

\* C6, amended: for every value containing a comma, escapeCSVField(value) is
\* wrapped in double quotes with every internal quote doubled, and reading the
\* field back yields the original value when it does not start with a formula
\* trigger, and the original value behind one single quote when it does.
C6_RoundTripNeutralized ==
    (Returned("escapeCSVField") /\ arg.t = "string" /\ Includes(arg.v, ","))
    => /\ Wrapped(ret)
       /\ QuotesDoubled(Inner(ret))
       /\ ReadField(ret) = Neutralized(arg.v)
       /\ (arg.v[1] \notin FormulaTriggers => ReadField(ret) = arg.v)

\* C6's case: a value with a formula trigger in front, a comma and a double
\* quote has been escaped, and reads back with the single quote in front.
C6_Witness ==
    /\ Returned("escapeCSVField")
    /\ arg.t = "string"
    /\ Includes(arg.v, ",")
    /\ Includes(arg.v, "\"")
    /\ arg.v[1] \in FormulaTriggers
    /\ Wrapped(ret)
    /\ ReadField(ret) = <<"'">> \o arg.v

SpecialChars == {",", "\"", "\n", "\r"}

\* C7: for every non-null value, escapeCSVField doubles the internal double
\* quotes and wraps the field in double quotes exactly when the field contains
\* a comma, a double quote, a newline or a carriage return, and applies no
\* wrapping otherwise; "=SUM(A1:A2)" is sanitized to "'=SUM(A1:A2)", which
\* escaping leaves unwrapped and unchanged.
C7_WrapIffSpecial ==
    /\ (Returned("escapeCSVField") /\ ~IsNullish(arg)) =>
          LET s == ToJsString(arg)
              special == \E c \in SpecialChars : Includes(s, c)
          IN  /\ Wrapped(ret) <=> special
              /\ special => /\ QuotesDoubled(Inner(ret))
                            /\ Undouble(Inner(ret)) = Neutralized(s)
              /\ ~special => ret = Neutralized(s)
    /\ (Returned("sanitizeCSVValue") /\ arg.t = "string" /\ arg.v = ExampleFormula)
          => ret = ExampleFormulaSanitized
    /\ (Returned("escapeCSVField") /\ arg.t = "string"
          /\ arg.v = ExampleFormulaSanitized)
          => ret = ExampleFormulaSanitized

\* C7's case: a value whose only special character is a line break has been
\* escaped, and came out wrapped.
C7_Witness ==
    /\ Returned("escapeCSVField")
    /\ arg.t = "string"
    /\ Includes(arg.v, "\n")
    /\ ~Includes(arg.v, ",")
    /\ ~Includes(arg.v, "\"")
    /\ ~Includes(arg.v, "\r")
    /\ Wrapped(ret)

\* C12: for every row object, sanitizeCSVRow returns an object with exactly
\* the same keys, in which the values of id, created_at and updated_at are the
\* input values unchanged and every other value is sanitizeCSVValue of the
\* input value.
C12_RowSanitizedFieldByField ==
    Returned("sanitizeCSVRow") =>
        /\ DOMAIN ret = DOMAIN arg
        /\ \A key \in DOMAIN arg :
              IF key \in SystemFields THEN StrictEquals(ret[key], arg[key])
              ELSE StrictEquals(ret[key], JsStr(sanitizeCSVValue(arg[key])))

\* A string with no leading formula trigger and no comma, double quote or
\* line break.
SafeString(value) ==
    /\ value.t = "string"
    /\ value.v # <<>> => value.v[1] \notin FormulaTriggers
    /\ \A i \in 1..Len(value.v) : value.v[i] \notin SpecialChars

\* C14: sanitizeCSVValue is idempotent, sanitizing its result gives the result
\* again, for every value; and for an already-safe string both
\* sanitizeCSVValue and escapeCSVField return the value unchanged.
C14_SanitizeIdempotent ==
    /\ Returned("sanitizeCSVValue") =>
          /\ sanitizeCSVValue(JsStr(ret)) = ret
          /\ SafeString(arg) => ret = arg.v
    /\ Returned("escapeCSVField") => (SafeString(arg) => ret = arg.v)

\* C14's case: a value that sanitizing changed, a formula or a negative
\* number, has been sanitized, and sanitizing the result changes nothing more.
C14_Witness ==
    /\ Returned("sanitizeCSVValue")
    /\ ret # ToJsString(arg)
    /\ Len(ret) > 2
    /\ sanitizeCSVValue(JsStr(ret)) = ret

\* The value holds a call of one of the known dangerous spreadsheet functions.
HasDangerousCall(value) ==
    \E call \in {<<"=", "H", "Y", "P", "E", "R", "L", "I", "N", "K", "(">>,
                  <<"=", "I", "M", "P", "O", "R", "T", "X", "M", "L", "(">>,
                  <<"=", "W", "E", "B", "S", "E", "R", "V", "I", "C", "E", "(">>} :
        \E i \in 1..Len(value) :
            /\ i + Len(call) - 1 <= Len(value)
            /\ \A k \in 1..Len(call) : value[i + k - 1] = call[k]

\* C23: validateCSVContent warns of a value that holds a dangerous function
\* call and of a value longer than 10,000 characters; neither warning alters
\* the verdict, which is unsafe exactly for a value at risk (one whose first
\* character is a formula trigger); sanitized is sanitizeCSVValue(value).
C23_ScanWarningsKeepVerdict ==
    Returned("validateCSVContent") =>
        /\ HasDangerousCall(arg) =>
               \E i \in 1..Len(ret.warnings) :
                   ret.warnings[i] = <<"V", "a", "l", "u", "e", " ", "c", "o", "n", "t", "a", "i", "n", "s", " ", "p", "o", "t", "e", "n", "t", "i", "a", "l", "l", "y", " ", "d", "a", "n", "g", "e", "r", "o", "u", "s", " ", "E", "x", "c", "e", "l", " ", "f", "u", "n", "c", "t", "i", "o", "n", "s">>
        /\ Len(arg) > 10000 =>
               \E i \in 1..Len(ret.warnings) :
                   ret.warnings[i] = <<"V", "a", "l", "u", "e", " ", "i", "s", " ", "v", "e", "r", "y", " ", "l", "o", "n", "g", " ", "a", "n", "d", " ", "m", "a", "y", " ", "c", "a", "u", "s", "e", " ", "p", "e", "r", "f", "o", "r", "m", "a", "n", "c", "e", " ", "i", "s", "s", "u", "e", "s">>
        /\ ret.isSafe = ~(arg # <<>> /\ arg[1] \in FormulaTriggers)
        /\ ret.sanitized = sanitizeCSVValue(JsStr(arg))

(***************************************************************************)
(* The header validator's inputs.  A single header is any base name, as    *)
(* written, in upper case or in lower case, bare or padded with white      *)
(* space.  A header list is any list of at most MaxHeaders headers of the  *)
(* small pool, or the canonical list with one name replaced by a header    *)
(* of the large pool, or with one such header inserted.                    *)
(***************************************************************************)
Quantity == <<"Q", "u", "a", "n", "t", "i", "t", "y">>
Notes == <<"N", "o", "t", "e", "s">>

RequiredSet == {REQUIRED_HEADERS[i] : i \in 1..Len(REQUIRED_HEADERS)}

AliasKeys == {HEADER_ALIASES[i][1] : i \in 1..Len(HEADER_ALIASES)}

HeaderBases ==
    {REQUIRED_HEADERS[i] : i \in 1..Len(REQUIRED_HEADERS)}
    \cup AliasKeys
    \cup {ProtoKey, <<"c", "o", "n", "s", "t", "r", "u", "c", "t", "o", "r">>, <<"t", "o", "S", "t", "r", "i", "n", "g">>}
    \cup {Quantity, Notes, <<>>, <<"P", "a", "r", "t">>, <<"M", "a", "r", "k">>,
          <<"P", "a", "r", "t", " ", "N", "o">>, <<"T", "h", "i", "c", "k", "n", "e", "s", "s", "s">>, <<"M", "a", "t", "e", "r", "i", "a", "l", " ", "T", "y", "p", "e">>,
          <<"P", "a", "r", "t", " ", "M", "a", "t", "e", "r", "i", "a", "l">>,
          <<"S", "t", "e", "e", "l", " ", "G", "r", "a", "d", "e">>, <<"k">>}

Cased(s) == {s, ToUpperCase(s), ToLowerCase(s)}

Padded(s) == {s, <<" ">> \o s, s \o <<" ">>, <<"\t">> \o s \o <<" ", "\r">>}

HeaderPool == UNION {UNION {Padded(c) : c \in Cased(b)} : b \in HeaderBases}

HeaderListPool ==
    {PartMark,
     <<" ">> \o <<"p", "a", "r", "t", "_", "m", "a", "r", "k">> \o <<" ">>,
     ToUpperCase(AssemblyMark),
     <<"m", "a", "t", "e", "r", "i", "a", "l", "s">>,
     <<"T", "h", "i", "c", "k", "n", "e", "s">>,
     Quantity,
     <<"M", "a", "t", "e", "r", "i", "a", "l", " ", "T", "y", "p", "e">>,
     <<>>}

\* The canonical list with the i-th name replaced by h.
Substituted(i, h) == [REQUIRED_HEADERS EXCEPT ![i] = h]

\* The canonical list with h inserted after its first i names.
Inserted(i, h) ==
    SubSeq(REQUIRED_HEADERS, 1, i) \o <<h>>
        \o SubSeq(REQUIRED_HEADERS, i + 1, Len(REQUIRED_HEADERS))

HeaderLists ==
    UNION {[1..k -> HeaderListPool] : k \in 0..MaxHeaders}
    \cup {Substituted(i, h) : i \in 1..Len(REQUIRED_HEADERS), h \in HeaderPool}
    \cup {Inserted(i, h) : i \in 0..Len(REQUIRED_HEADERS), h \in HeaderPool}

\* The lists createMissingHeadersMessage is given: any list of at most
\* MaxHeaders required names, the lists validateRequiredHeaders reports (the
\* missing names in canonical order) among them.
MissingLists == UNION {[1..k -> RequiredSet] : k \in 0..MaxHeaders}

HdrInit ==
    /\ \/ fn = "normalizeHeader" /\ arg \in HeaderPool
       \/ fn = "validateRequiredHeaders" /\ arg \in HeaderLists
       \/ fn = "fuzzyMatchHeader" /\ arg \in HeaderPool
       \/ fn = "createMissingHeadersMessage" /\ arg \in MissingLists
    /\ ret = <<>>
    /\ pc = "call"
    /\ UploadIdle
    /\ HomeIdle
    /\ GridIdle
    /\ ResetIdle

CallNormalizeHeader ==
    /\ pc = "call"
    /\ fn = "normalizeHeader"
    /\ ret' = normalizeHeader(arg)
    /\ pc' = "done"
    /\ UNCHANGED <<fn, arg, uploadVars, homeVars, gridVars, resetVars>>

CallValidateRequiredHeaders ==
    /\ pc = "call"
    /\ fn = "validateRequiredHeaders"
    /\ ret' = validateRequiredHeaders(arg)
    /\ pc' = "done"
    /\ UNCHANGED <<fn, arg, uploadVars, homeVars, gridVars, resetVars>>

CallFuzzyMatchHeader ==
    /\ pc = "call"
    /\ fn = "fuzzyMatchHeader"
    /\ ret' = fuzzyMatchHeader(arg)
    /\ pc' = "done"
    /\ UNCHANGED <<fn, arg, uploadVars, homeVars, gridVars, resetVars>>

CallCreateMissingHeadersMessage ==
    /\ pc = "call"
    /\ fn = "createMissingHeadersMessage"
    /\ ret' = createMissingHeadersMessage(arg)
    /\ pc' = "done"
    /\ UNCHANGED <<fn, arg, uploadVars, homeVars, gridVars, resetVars>>

HdrNext ==
    \/ CallNormalizeHeader
    \/ CallValidateRequiredHeaders
    \/ CallFuzzyMatchHeader
    \/ CallCreateMissingHeadersMessage

SpecHdr == HdrInit /\ [][HdrNext]_vars

(***************************************************************************)
(* Claims about the header validator.                                      *)
(***************************************************************************)
\* Header h stands for the canonical name R: it is R in some letter casing, or
\* a key of the alias table for R, white space around it aside.
Represents(h, R) ==
    LET key == ToLowerCase(Trim(h))
    IN  \/ key = ToLowerCase(R)
        \/ \E i \in 1..Len(HEADER_ALIASES) :
              HEADER_ALIASES[i][1] = key /\ HEADER_ALIASES[i][2] = R

\* C3: for every header list in which each of the four canonical names is
\* represented by at least one entry (any casing, any order, any alias key, any
\* surrounding white space, any extra headers), validateRequiredHeaders returns
\* isValid = true and an empty missingHeaders list.
C3_AllRepresentedIsValid ==
    (/\ Returned("validateRequiredHeaders")
     /\ \A R \in RequiredSet : \E i \in 1..Len(arg) : Represents(arg[i], R))
    => ret.isValid = TRUE /\ ret.missingHeaders = <<>>

\* C3's case: a list in another order than the canonical one, in which the
\* four names are an upper-case name, a padded alias and two more aliases,
\* has been validated.
C3_Witness ==
    /\ Returned("validateRequiredHeaders")
    /\ Len(arg) = 4
    /\ \A R \in RequiredSet : \E i \in 1..Len(arg) : Represents(arg[i], R)
    /\ \A i \in 1..4 : arg[i] \notin RequiredSet
    /\ Represents(arg[1], Thickness)
    /\ Represents(arg[4], PartMark)
    /\ ret.isValid

ExampleHeaders == <<<<"p", "a", "r", "t", "m", "a", "r", "k">>, AssemblyMark, <<"m", "a", "t", "e", "r", "i", "a", "l">>, <<"T", "h", "i", "c", "k", "n", "e", "s">>>>

\* C4: for every header string h, normalizeHeader(h) is the canonical required
\* name when trim(h) equals it case-insensitively, otherwise the alias target
\* when lowercase(trim(h)) is a key of the alias table, otherwise trim(h)
\* unchanged; ["partmark","AssemblyMark","material","Thicknes"] normalizes to
\* ["PartMark","AssemblyMark","Material","Thickness"].
C4_NormalizeHeader ==
    /\ Returned("normalizeHeader") =>
          LET trimmed == Trim(arg)
              lower == ToLowerCase(trimmed)
              expected ==
                  IF \E R \in RequiredSet : ToLowerCase(R) = lower
                  THEN CHOOSE R \in RequiredSet : ToLowerCase(R) = lower
                  ELSE IF lower \in AliasKeys
                  THEN Lookup(HEADER_ALIASES, lower)
                  ELSE trimmed
          IN  ret.t = "string" /\ ret.v = expected
    /\ (Returned("validateRequiredHeaders") /\ arg = ExampleHeaders) =>
          /\ Len(ret.normalizedHeaders) = 4
          /\ \A i \in 1..4 : /\ ret.normalizedHeaders[i].t = "string"
                             /\ ret.normalizedHeaders[i].v = REQUIRED_HEADERS[i]

\* fuzzyMatchHeader(h) is the exact match for the required name R.
ExactFuzzyMatch(h, R) ==
    LET m == fuzzyMatchHeader(h)
    IN  /\ m.isMatch = TRUE
        /\ StrictEquals(m.suggestedHeader, JsStr(R))
        /\ m.confidence = ConfidenceExact

\* C11: fuzzy matching never causes a header to be accepted:
\* validateRequiredHeaders treats a required header R as present (not missing)
\* if and only if some input header h has fuzzyMatchHeader(h) = {isMatch: true,
\* suggestedHeader: R, confidence: 1.0}; a header whose fuzzy confidence is
\* 0.7, 0.5 or 0 normalizes to no required header, so it satisfies none.
C11_OnlyExactMatchesAccepted ==
    Returned("validateRequiredHeaders") =>
        /\ \A R \in RequiredSet :
              (\A k \in 1..Len(ret.missingHeaders) : ret.missingHeaders[k] # R)
              <=> (\E i \in 1..Len(arg) : ExactFuzzyMatch(arg[i], R))
        /\ \A i \in 1..Len(arg) :
              fuzzyMatchHeader(arg[i]).confidence # ConfidenceExact
              => \A R \in RequiredSet :
                    ~StrictEquals(ret.normalizedHeaders[i], JsStr(R))
        /\ ret.isValid = \A R \in RequiredSet :
                            \E i \in 1..Len(arg) : ExactFuzzyMatch(arg[i], R)

\* C11's case: a validated list in which a header looks like Material with
\* confidence 0.7 and another like Thickness, while both names are reported
\* missing and PartMark, matched exactly through an alias, is not.
C11_Witness ==
    /\ Returned("validateRequiredHeaders")
    /\ \E i \in 1..Len(arg) :
          /\ fuzzyMatchHeader(arg[i]).confidence = ConfidencePartial
          /\ StrictEquals(fuzzyMatchHeader(arg[i]).suggestedHeader, JsStr(Material))
    /\ \E k \in 1..Len(ret.missingHeaders) : ret.missingHeaders[k] = Material
    /\ \E k \in 1..Len(ret.missingHeaders) : ret.missingHeaders[k] = Thickness
    /\ \E i \in 1..Len(arg) : arg[i] # PartMark /\ ExactFuzzyMatch(arg[i], PartMark)
    /\ \A k \in 1..Len(ret.missingHeaders) : ret.missingHeaders[k] # PartMark
    /\ ~ret.isValid

\* The first n names of list, each after the first preceded by ", ".
CommaListing(list, n) ==
    LET listing[k \in 1..n] ==
            IF k = 1 THEN list[1] ELSE listing[k - 1] \o <<",", " ">> \o list[k]
    IN  listing[n]

\* C13: the missing-headers message is "Missing required header: X" when
\* exactly one required header X is missing; when two or more are missing it
\* lists all but the last joined by ", ", followed by " and " and the last;
\* it is the empty string when none is missing.
C13_MissingHeadersMessage ==
    Returned("createMissingHeadersMessage") =>
        /\ Len(arg) = 0 => ret = <<>>
        /\ Len(arg) = 1 =>
              ret = <<"M", "i", "s", "s", "i", "n", "g", " ", "r", "e", "q", "u", "i", "r", "e", "d", " ", "h", "e", "a", "d", "e", "r", ":", " ">> \o arg[1]
        /\ Len(arg) >= 2 =>
              ret = <<"M", "i", "s", "s", "i", "n", "g", " ", "r", "e", "q", "u", "i", "r", "e", "d", " ", "h", "e", "a", "d", "e", "r", "s", ":", " ">>
                        \o CommaListing(arg, Len(arg) - 1)
                        \o <<" ", "a", "n", "d", " ">> \o arg[Len(arg)]

\* C13's case: the message for the list validateRequiredHeaders reports when
\* only PartMark is present, three missing names in canonical order.
C13_Witness ==
    /\ Returned("createMissingHeadersMessage")
    /\ arg = validateRequiredHeaders(<<PartMark>>).missingHeaders
    /\ Len(arg) = 3
    /\ EndsWith(ret, <<"M", "a", "t", "e", "r", "i", "a", "l", " ", "a", "n", "d", " ">> \o Thickness)

\* The lowercased header contains the lowercased name R or is contained in it.
ContainsName(h, R) ==
    \/ IncludesString(ToLowerCase(h), ToLowerCase(R))
    \/ IncludesString(ToLowerCase(R), ToLowerCase(h))

\* The words of a text: its maximal runs of characters other than white space.
WordsOf(text) ==
    {w \in Range(SplitWords(text, <<>>)) : w # <<>>}

\* The header and the name R share a word: a word of one is, or is part of, a
\* word of the other, letter case aside.
SharesWord(h, R) ==
    \E w \in WordsOf(ToLowerCase(h)) : \E r \in WordsOf(ToLowerCase(R)) :
        IncludesString(w, r) \/ IncludesString(r, w)

\* C19: fuzzyMatchHeader reports the first applicable level in this order:
\* confidence 1.0 with isMatch = true when the header normalizes to a required
\* header; else confidence 0.7 suggesting a required header R that the
\* lowercased header contains or is contained in; else confidence 0.5
\* suggesting an R it shares a word with; else confidence 0 and no suggestion.
\* A header unrelated to every required header gets confidence 0.
C19_FirstApplicableLevel ==
    Returned("fuzzyMatchHeader") =>
        IF \E R \in RequiredSet : Represents(arg, R)
        THEN /\ ret.isMatch = TRUE
             /\ ret.confidence = ConfidenceExact
             /\ \E R \in RequiredSet :
                   Represents(arg, R) /\ StrictEquals(ret.suggestedHeader, JsStr(R))
        ELSE IF \E R \in RequiredSet : ContainsName(arg, R)
        THEN /\ ret.isMatch = FALSE
             /\ ret.confidence = ConfidencePartial
             /\ \E R \in RequiredSet :
                   ContainsName(arg, R) /\ StrictEquals(ret.suggestedHeader, JsStr(R))
        ELSE IF \E R \in RequiredSet : SharesWord(arg, R)
        THEN /\ ret.isMatch = FALSE
             /\ ret.confidence = ConfidenceSimilar
             /\ \E R \in RequiredSet :
                   SharesWord(arg, R) /\ StrictEquals(ret.suggestedHeader, JsStr(R))
        ELSE /\ ret.isMatch = FALSE
             /\ ret.confidence = ConfidenceNone
             /\ ret.suggestedHeader.t = "null"

\* The positions of the list whose header normalizes to the same value as an
\* earlier header of the list.
DuplicatePositions(headers) ==
    {i \in 1..Len(headers) :
        \E j \in 1..(i - 1) :
            StrictEquals(normalizeHeader(headers[j]), normalizeHeader(headers[i]))}

\* The positions of the list whose header is empty after trimming.
EmptyPositions(headers) == {i \in 1..Len(headers) : Trim(headers[i]) = <<>>}

\* The list without the entries at the given positions.
WithoutPositions(headers, positions) ==
    LET kept == {i \in 1..Len(headers) : i \notin positions}
    IN  [k \in 1..Cardinality(kept) |->
            headers[CHOOSE i \in kept : Cardinality({j \in kept : j < i}) = k - 1]]

\* C22: the warnings of validateRequiredHeaders are one warning that lists the
\* normalized names of the duplicate entries, when there are any, and one that
\* counts the entries empty after trimming, when there are any; isValid and
\* missingHeaders are those of the list without the duplicate and the empty
\* entries, a list that gets no warning.
C22_WarningsAreNotFatal ==
    Returned("validateRequiredHeaders") =>
        LET duplicates == DuplicatePositions(arg)
            empties == EmptyPositions(arg)
            names == WithoutPositions(arg, (1..Len(arg)) \ duplicates)
            duplicateWarning ==
                <<"D", "u", "p", "l", "i", "c", "a", "t", "e", " ", "h", "e", "a", "d", "e", "r", "s", " ", "f", "o", "u", "n", "d", ":", " ">>
                    \o Join([i \in 1..Len(names) |->
                                ToJsString(normalizeHeader(names[i]))], <<",", " ">>)
            emptyWarning ==
                NatToString(Cardinality(empties))
                    \o <<" ", "e", "m", "p", "t", "y", " ", "h", "e", "a", "d", "e", "r", "(", "s", ")", " ", "f", "o", "u", "n", "d">>
            cleaned == validateRequiredHeaders(
                           WithoutPositions(arg, duplicates \cup empties))
        IN  /\ ret.warnings =
                   (IF duplicates # {} THEN <<duplicateWarning>> ELSE <<>>)
                       \o (IF empties # {} THEN <<emptyWarning>> ELSE <<>>)
            /\ ret.isValid = cleaned.isValid
            /\ ret.missingHeaders = cleaned.missingHeaders
            /\ cleaned.warnings = <<>>

\* A list with every required header, one of them twice, is valid and gets the
\* duplicate warning; a list with a duplicate and two empty headers gets both
\* warnings.
C22_Witness ==
    /\ Returned("validateRequiredHeaders")
    /\ \/ /\ arg = Inserted(4, <<" ">> \o ToLowerCase(PartMark))
          /\ ret.isValid
          /\ ret.warnings = <<<<"D", "u", "p", "l", "i", "c", "a", "t", "e", " ", "h", "e", "a", "d", "e", "r", "s", " ", "f", "o", "u", "n", "d", ":", " ">> \o PartMark>>
       \/ /\ arg = <<PartMark, <<>>, PartMark, <<>>>>
          /\ ~ret.isValid
          /\ Len(ret.warnings) = 2
          /\ ret.warnings[2] = <<"2", " ", "e", "m", "p", "t", "y", " ", "h", "e", "a", "d", "e", "r", "(", "s", ")", " ", "f", "o", "u", "n", "d">>

(***************************************************************************)
(* The row validator's inputs: a header list of RowHeaderLists and rows    *)
(* whose keys are headers of the list, each cell null, "", white space, a  *)
(* text or the number 0, or absent (the key left out: it reads undefined). *)
(* Rows times headers is at most MaxCells.                                 *)
(***************************************************************************)
A1 == <<"A", "1">>
Steel == <<"S", "t", "e", "e", "l">>
TwoMm == <<"2", "m", "m">>

RowHeaderLists ==
    {<<>>,
     <<Thickness>>,
     <<Notes>>,
     <<Material, PartMark>>,
     <<PartMark, <<" ">> \o <<"p", "a", "r", "t", "_", "m", "a", "r", "k">>>>,
     <<Notes, <<"t", "h", "i", "c", "k">>, ToUpperCase(PartMark)>>,
     REQUIRED_HEADERS,
     ExampleHeaders,
     <<<<"p", "a", "r", "t", "_", "m", "a", "r", "k">>, <<"a", "s", "s", "e", "m", "b", "l", "y", "_", "m", "a", "r", "k">>,
       <<"m", "a", "t", "e", "r", "i", "a", "l">>, <<"t", "h", "i", "c", "k", "n", "e", "s", "s">>>>,
     <<Quantity, Thickness, Material, AssemblyMark, PartMark>>}

CellValues == {JsNull, JsStr(<<>>), JsStr(<<" ">>), JsStr(A1), JsNum(0)}

RowsOver(headers) == UNION {[K -> CellValues] : K \in SUBSET Range(headers)}

ExampleRow ==
    (PartMark :> JsStr(<<>>)) @@ (AssemblyMark :> JsStr(A1))
        @@ (Material :> JsStr(Steel)) @@ (Thickness :> JsStr(TwoMm))

ExampleRows == <<ExampleRow>>

FullRow ==
    (PartMark :> JsStr(A1)) @@ (AssemblyMark :> JsStr(A1))
        @@ (Material :> JsStr(Steel)) @@ (Thickness :> JsNum(2))

SparseRow ==
    (PartMark :> JsStr(A1)) @@ (AssemblyMark :> JsNull)
        @@ (Thickness :> JsStr(<<" ">>))

\* Tables with every required header: one bad row, good and bad rows, good rows.
ExampleTables ==
    {ExampleRows, <<FullRow, ExampleRow, SparseRow>>, <<FullRow, FullRow>>}

\* The message builder's inputs: at most MaxErrors errors, in any order, of
\* the rows 2, 3, 4, 5 and 10; rows 2 and 3 may lack either of two fields.
EmptyValueError(rowNumber, field) ==
    [rowNumber |-> rowNumber, field |-> field, value |-> JsStr(<<>>)]

ErrorPool ==
    {EmptyValueError(n, f) : n \in {2, 3}, f \in {PartMark, Material}}
        \cup {EmptyValueError(n, PartMark) : n \in {4, 5, 10}}

RowsInit ==
    /\ \/ /\ fn = "validateRowData"
          /\ \/ \E hs \in RowHeaderLists :
                   /\ Len(hs) <= MaxCells
                   /\ \E r \in RowsOver(hs) : arg = [row |-> r, headers |-> hs]
             \/ arg = [row |-> ExampleRow, headers |-> REQUIRED_HEADERS]
       \/ /\ fn = "validateCSVDataRows"
          /\ \/ \E hs \in RowHeaderLists :
                   \E n \in 0..MaxCells :
                      /\ n * Len(hs) <= MaxCells
                      /\ \E d \in [1..n -> RowsOver(hs)] :
                            arg = [csvData |-> d, headers |-> hs]
             \/ \E d \in ExampleTables :
                   arg = [csvData |-> d, headers |-> REQUIRED_HEADERS]
       \/ /\ fn = "createEmptyValuesMessage"
          /\ \E n \in 0..MaxErrors : \E errors \in [1..n -> ErrorPool] :
                arg = errors
    /\ ret = <<>>
    /\ pc = "call"
    /\ UploadIdle
    /\ HomeIdle
    /\ GridIdle
    /\ ResetIdle

CallValidateRowData ==
    /\ pc = "call"
    /\ fn = "validateRowData"
    /\ ret' = validateRowData(arg.row, arg.headers)
    /\ pc' = "done"
    /\ UNCHANGED <<fn, arg, uploadVars, homeVars, gridVars, resetVars>>

CallValidateCSVDataRows ==
    /\ pc = "call"
    /\ fn = "validateCSVDataRows"
    /\ ret' = validateCSVDataRows(arg.csvData, arg.headers)
    /\ pc' = "done"
    /\ UNCHANGED <<fn, arg, uploadVars, homeVars, gridVars, resetVars>>

CallCreateEmptyValuesMessage ==
    /\ pc = "call"
    /\ fn = "createEmptyValuesMessage"
    /\ ret' = createEmptyValuesMessage(arg)
    /\ pc' = "done"
    /\ UNCHANGED <<fn, arg, uploadVars, homeVars, gridVars, resetVars>>

RowsNext ==
    \/ CallValidateRowData
    \/ CallValidateCSVDataRows
    \/ CallCreateEmptyValuesMessage

SpecRows == RowsInit /\ [][RowsNext]_vars

(***************************************************************************)
(* Claims about the row validator.                                         *)
(***************************************************************************)
\* The position of the first header of the list that stands for R, 0 if none.
FieldPosition(headers, R) ==
    IF \E i \in 1..Len(headers) : Represents(headers[i], R)
    THEN CHOOSE i \in 1..Len(headers) :
            /\ Represents(headers[i], R)
            /\ \A j \in 1..(i - 1) : ~Represents(headers[j], R)
    ELSE 0

\* The row's value for R, a field the header list has.
FieldValue(row, headers, R) ==
    LET h == headers[FieldPosition(headers, R)]
    IN  IF h \in DOMAIN row THEN row[h] ELSE JsUndefined

\* Null, undefined, or nothing but white space once converted to a string.
Blank(x) ==
    \/ x.t \in {"null", "undefined"}
    \/ LET str == ToJsString(x) IN \A i \in 1..Len(str) : str[i] \in WhiteSpace

RequiredIndex(R) == CHOOSE k \in 1..Len(REQUIRED_HEADERS) : REQUIRED_HEADERS[k] = R

\* The pairs (row i, required field k) whose value is blank, i counted from 1.
BlankPairs(csvData, headers) ==
    {p \in (1..Len(csvData)) \X (1..Len(REQUIRED_HEADERS)) :
        /\ FieldPosition(headers, REQUIRED_HEADERS[p[2]]) # 0
        /\ Blank(FieldValue(csvData[p[1]], headers, REQUIRED_HEADERS[p[2]]))}

\* C5: validateCSVDataRows returns exactly one {rowNumber, field, value} tuple
\* for every pair (data row i, required field present in the header list) whose
\* value in that row is null, undefined or empty after string conversion and
\* trimming, with rowNumber = i + 2 for zero-based i, ordered by row and then by
\* required-field order; isValid is false exactly when the list is non-empty;
\* the row {PartMark: "", AssemblyMark: "A1", Material: "Steel", Thickness:
\* "2mm"} yields the one error {rowNumber: 2, field: "PartMark", value: ""}.
C5_OneTuplePerBlankPair ==
    Returned("validateCSVDataRows") =>
        LET E == ret.emptyValueErrors
            P == BlankPairs(arg.csvData, arg.headers)
        IN  /\ Len(E) = Cardinality(P)
            /\ \A p \in P : \E n \in 1..Len(E) :
                  /\ E[n].rowNumber = (p[1] - 1) + 2
                  /\ E[n].field = REQUIRED_HEADERS[p[2]]
                  /\ StrictEquals(E[n].value,
                        FieldValue(arg.csvData[p[1]], arg.headers, REQUIRED_HEADERS[p[2]]))
            /\ \A m, n \in 1..Len(E) : m < n =>
                  \/ E[m].rowNumber < E[n].rowNumber
                  \/ /\ E[m].rowNumber = E[n].rowNumber
                     /\ RequiredIndex(E[m].field) < RequiredIndex(E[n].field)
            /\ ret.isValid = (Len(E) = 0)
            /\ (arg.headers = REQUIRED_HEADERS /\ Len(arg.csvData) = 1
                  /\ DOMAIN arg.csvData[1] = RequiredSet
                  /\ \A R \in RequiredSet :
                        StrictEquals(arg.csvData[1][R], ExampleRow[R]))
               => /\ Len(E) = 1
                  /\ E[1].rowNumber = 2
                  /\ E[1].field = PartMark
                  /\ StrictEquals(E[1].value, JsStr(<<>>))
                  /\ ret.isValid = FALSE

\* C5's case: two rows under a two-header list, blank in three of the four
\* cells, have been validated: three tuples, the second row's last.
C5_Witness ==
    /\ Returned("validateCSVDataRows")
    /\ arg.headers = <<Material, PartMark>>
    /\ Len(arg.csvData) = 2
    /\ Len(ret.emptyValueErrors) = 3
    /\ ret.emptyValueErrors[1].field = PartMark
    /\ ret.emptyValueErrors[2].field = Material
    /\ ret.emptyValueErrors[3].rowNumber = 3
    /\ ret.emptyValueErrors[3].value.t = "null"

\* C10: a required header that is not found in the header list (after
\* normalization) is never reported as a per-row empty value: validateRowData
\* lists it in missingFields and not in emptyRequiredFields, and returns
\* isValid = false; validateCSVDataRows emits no tuple for it in any row.
C10_MissingHeaderIsNotEmptyValue ==
    \A R \in RequiredSet :
        /\ (Returned("validateRowData") /\ FieldPosition(arg.headers, R) = 0) =>
              /\ R \in Range(ret.missingFields)
              /\ R \notin Range(ret.emptyRequiredFields)
              /\ ret.isValid = FALSE
        /\ (Returned("validateCSVDataRows") /\ FieldPosition(arg.headers, R) = 0) =>
              \A n \in 1..Len(ret.emptyValueErrors) : ret.emptyValueErrors[n].field # R

\* C10's case: rows that lack the keys of the missing headers, under a list
\* that has only two of the required headers, have been validated by both
\* validators.
C10_Witness ==
    \/ /\ Returned("validateRowData")
       /\ arg.headers = <<Material, PartMark>>
       /\ DOMAIN arg.row = {}
       /\ ret.missingFields = <<AssemblyMark, Thickness>>
       /\ ret.emptyRequiredFields = <<PartMark, Material>>
    \/ /\ Returned("validateCSVDataRows")
       /\ arg.headers = <<Notes>>
       /\ Len(arg.csvData) = MaxCells
       /\ ret.emptyValueErrors = <<>>

\* The row numbers that have errors.
RowsWithErrors(errors) == {errors[i].rowNumber : i \in 1..Len(errors)}

\* The i-th smallest row number that has errors.
NthRow(errors, i) ==
    CHOOSE r \in RowsWithErrors(errors) :
        Cardinality({q \in RowsWithErrors(errors) : q < r}) = i - 1

\* "Row N: Missing X" or "Row N: Missing X, Y": the fields of row N's errors,
\* in their order in the list, after the row number.
RowMessage(errors, N) ==
    LET ofRow == SelectSeq(errors, LAMBDA e : e.rowNumber = N)
        fields == [i \in 1..Len(ofRow) |-> ofRow[i].field]
    IN  <<"R", "o", "w", " ">> \o NatToString(N)
            \o <<":", " ", "M", "i", "s", "s", "i", "n", "g", " ">>
            \o Join(fields, <<",", " ">>)

\* The messages of the first `shown` rows, in ascending row order, "; " between.
RowMessages(errors, shown) ==
    Join([i \in 1..shown |-> RowMessage(errors, NthRow(errors, i))],
         <<";", " ">>)

\* C21, as stated: the message lists the rows with errors, grouped, the first
\* 3 only when there are more than 3, and then ends with "+K more row(s)", K
\* the number of rows with errors minus 3.
C21_MessageWithPlusSuffix ==
    Returned("createEmptyValuesMessage") =>
        LET rows == Cardinality(RowsWithErrors(arg))
        IN  IF rows <= 3 THEN ret = RowMessages(arg, rows)
            ELSE /\ StartsWith(ret, RowMessages(arg, 3))
                 /\ EndsWith(ret, <<"+">> \o NatToString(rows - 3)
                                     \o <<" ", "m", "o", "r", "e", " ", "r", "o", "w", "(", "s", ")">>)

\* C21, corrected: the message lists the rows with errors in ascending order of
\* row number, each as "Row N: Missing X" or "Row N: Missing X, Y"; with 3 rows
\* or fewer it lists them all and adds nothing, with more it lists the first 3
\* and ends with " and K more row(s)", K the number of rows with errors minus 3.
C21_MessageWithAndSuffix ==
    Returned("createEmptyValuesMessage") =>
        LET rows == Cardinality(RowsWithErrors(arg))
        IN  IF rows <= 3 THEN ret = RowMessages(arg, rows)
            ELSE ret = RowMessages(arg, 3)
                           \o <<" ", "a", "n", "d", " ">>
                           \o NatToString(rows - 3)
                           \o <<" ", "m", "o", "r", "e", " ", "r", "o", "w", "(", "s", ")">>

\* Four rows have errors, given out of order, row 2 with two fields: rows 2, 3
\* and 4 are shown and 1 more counted, row 10 coming after row 4.
C21_Witness ==
    /\ Returned("createEmptyValuesMessage")
    /\ arg = <<EmptyValueError(10, PartMark), EmptyValueError(2, Material),
               EmptyValueError(4, PartMark), EmptyValueError(2, PartMark),
               EmptyValueError(3, Material)>>
    /\ ret = <<"R", "o", "w", " ", "2", ":", " ", "M", "i", "s", "s", "i", "n", "g", " ">>
                 \o Material \o <<",", " ">> \o PartMark
                 \o <<";", " ", "R", "o", "w", " ", "3", ":", " ", "M", "i", "s", "s", "i", "n", "g", " ">>
                 \o Material
                 \o <<";", " ", "R", "o", "w", " ", "4", ":", " ", "M", "i", "s", "s", "i", "n", "g", " ">>
                 \o PartMark
                 \o <<" ", "a", "n", "d", " ", "1", " ", "m", "o", "r", "e", " ", "r", "o", "w", "(", "s", ")">>

\* The fields validateCSVDataRows reported for the row at index i (counted
\* from 1; the row number it reports is i + 1), in the order reported.
ReportedFields(result, i) ==
    LET OfRow(error, k) == error.rowNumber = i + 1
        errors == Filter(result.emptyValueErrors, OfRow)
    IN  [k \in 1..Len(errors) |-> errors[k].field]

\* C29: the fields validateCSVDataRows reports for a row are exactly the
\* emptyRequiredFields of validateRowData for this row and the same headers;
\* and when every required header is found in the header list,
\* validateCSVDataRows says valid exactly when validateRowData says valid for
\* every row.
C29_RowValidatorsAgree ==
    Returned("validateCSVDataRows") =>
        /\ \A i \in 1..Len(arg.csvData) :
              ReportedFields(ret, i)
                  = validateRowData(arg.csvData[i], arg.headers).emptyRequiredFields
        /\ \A k \in 1..Len(ret.emptyValueErrors) :
              ret.emptyValueErrors[k].rowNumber - 1 \in 1..Len(arg.csvData)
        /\ (\A r \in 1..Len(REQUIRED_HEADERS) :
                FindHeaderIndex(arg.headers, REQUIRED_HEADERS[r]) # 0)
           => (ret.isValid <=>
                  \A i \in 1..Len(arg.csvData) :
                     validateRowData(arg.csvData[i], arg.headers).isValid)

\* C29's case: with every required header in the list, a table of a good row,
\* a row with one empty field and a row with three (null, no key, a blank) is
\* invalid, and the fields reported for the third row are the three
\* validateRowData finds empty.
C29_Witness ==
    /\ Returned("validateCSVDataRows")
    /\ arg = [csvData |-> <<FullRow, ExampleRow, SparseRow>>,
              headers |-> REQUIRED_HEADERS]
    /\ ~ret.isValid
    /\ validateRowData(FullRow, REQUIRED_HEADERS).isValid
    /\ ReportedFields(ret, 3) = <<AssemblyMark, Material, Thickness>>
    /\ validateRowData(SparseRow, REQUIRED_HEADERS).emptyRequiredFields
          = <<AssemblyMark, Material, Thickness>>

(***************************************************************************)
(* The parser's inputs: every text over ParseAlphabet of length at most    *)
(* MaxTextLen, and the example files.                                      *)
(***************************************************************************)
ParseAlphabet == {"a", "b", ",", "\n", " ", "\""}

Comma == <<",">>
NewLine == <<"\n">>
P1 == <<"P", "1">>

HeaderLine == PartMark \o Comma \o AssemblyMark \o Comma \o Material \o Comma \o Thickness

\* The header line only (the spec's example 2).
HeaderOnlyFile == HeaderLine
\* A header line and two complete data lines, with CRLF line ends.
ValidFile ==
    HeaderLine \o <<"\r">> \o NewLine
        \o P1 \o Comma \o A1 \o Comma \o Steel \o Comma \o TwoMm \o <<"\r">> \o NewLine
        \o P1 \o Comma \o A1 \o Comma \o <<"'">> \o Steel \o <<"'">> \o Comma \o TwoMm
        \o NewLine
\* The Material header is missing.
MissingHeaderFile ==
    PartMark \o Comma \o AssemblyMark \o Comma \o Thickness \o NewLine
        \o P1 \o Comma \o A1 \o Comma \o TwoMm \o NewLine
\* The PartMark of the data line is empty (the spec's example 3).
EmptyFieldFile ==
    HeaderLine \o NewLine \o Comma \o A1 \o Comma \o Steel \o Comma \o TwoMm
\* A header named __proto__.
ProtoHeaderFile == ProtoKey \o Comma \o PartMark \o NewLine \o A1 \o Comma \o P1

ExampleFiles ==
    {HeaderOnlyFile, ValidFile, MissingHeaderFile, EmptyFieldFile, ProtoHeaderFile}

ParseInit ==
    /\ fn = "parseCSVData"
    /\ \/ arg \in StringsUpTo(ParseAlphabet, MaxTextLen)
       \/ arg \in ExampleFiles
    /\ ret = <<>>
    /\ pc = "call"
    /\ UploadIdle
    /\ HomeIdle
    /\ GridIdle
    /\ ResetIdle

CallParseCSVData ==
    /\ pc = "call"
    /\ fn = "parseCSVData"
    /\ ret' = parseCSVData(arg)
    /\ pc' = "done"
    /\ UNCHANGED <<fn, arg, uploadVars, homeVars, gridVars, resetVars>>

ParseNext == CallParseCSVData

SpecParse == ParseInit /\ [][ParseNext]_vars

(***************************************************************************)
(* Claims about the parser.                                                *)
(***************************************************************************)
\* The lines of the text that hold a character other than white space.
NonBlankLines(text) ==
    LET NonBlank(line, i) == \E k \in 1..Len(line) : line[k] \notin WhiteSpace
    IN  Filter(Split(text, "\n"), NonBlank)

\* C8: when the text has fewer than two lines that are non-empty after
\* trimming, parseCSVData returns errors = ["CSV file must contain at least a
\* header row and one data row"] with empty headers and data; when it has two
\* or more, errors is empty.
C8_TooFewLines ==
    Returned("parseCSVData") =>
        IF Len(NonBlankLines(arg)) < 2
        THEN /\ ret.errors = <<ParseErrorText>>
             /\ ret.headers = <<>>
             /\ ret.data = <<>>
        ELSE ret.errors = <<>>

\* C8's case: a text of a header line and lines of white space only has been
\* parsed and refused.
C8_Witness ==
    /\ Returned("parseCSVData")
    /\ Len(Split(arg, "\n")) = 3
    /\ Len(NonBlankLines(arg)) = 1
    /\ Includes(arg, " ")
    /\ Includes(arg, ",")
    /\ ret.errors # <<>>

\* The k-th comma-separated value of a line, trimmed and quote-stripped; the
\* empty string when the line has fewer than k values.
FieldAt(line, k) ==
    LET tokens == Split(Trim(line), ",")
    IN  IF k <= Len(tokens) THEN StripQuotes(Trim(tokens[k])) ELSE <<>>

\* C9, as stated: for text with at least two non-empty lines, parseCSVData
\* produces one row per non-empty data line, in file order, and in each row
\* the value under the header at position k is the k-th comma-separated value
\* of that line (trimmed and quote-stripped), or the empty string when the line
\* has fewer values; values beyond the last header are dropped.
C9_PositionalOriginal ==
    (Returned("parseCSVData") /\ Len(NonBlankLines(arg)) >= 2) =>
        LET lines == NonBlankLines(arg)
        IN  /\ Len(ret.data) = Len(lines) - 1
            /\ \A n \in 1..Len(ret.data) :
                  /\ DOMAIN ret.data[n] \subseteq Range(ret.headers)
                  /\ \A k \in 1..Len(ret.headers) :
                        StrictEquals(RowGet(ret.data[n], ret.headers[k]),
                                     JsStr(FieldAt(lines[n + 1], k)))

\* The last position of header name h in the header list.
LastPosition(headers, h) ==
    CHOOSE k \in 1..Len(headers) :
        headers[k] = h /\ \A j \in (k + 1)..Len(headers) : headers[j] # h

\* C9, amended: for text with at least two non-empty lines, parseCSVData
\* produces one row per non-empty data line, in file order; the headers are
\* the comma-separated values of the first non-empty line; in each row the
\* value under a header name other than "__proto__" is the value of that line
\* at the last position the name has in the header list (at position k for the
\* k-th header when the header names are distinct), or the empty string when
\* the line has fewer values; a row has no key that is not a header.
C9_PositionalLastWins ==
    (Returned("parseCSVData") /\ Len(NonBlankLines(arg)) >= 2) =>
        LET lines == NonBlankLines(arg)
        IN  /\ Len(ret.data) = Len(lines) - 1
            /\ Len(ret.headers) = Len(Split(Trim(lines[1]), ","))
            /\ \A k \in 1..Len(ret.headers) : ret.headers[k] = FieldAt(lines[1], k)
            /\ \A n \in 1..Len(ret.data) :
                  /\ DOMAIN ret.data[n] = Range(ret.headers) \ {ProtoKey}
                  /\ \A h \in DOMAIN ret.data[n] :
                        StrictEquals(ret.data[n][h],
                            JsStr(FieldAt(lines[n + 1], LastPosition(ret.headers, h))))
                  /\ \A k \in 1..Len(ret.headers) :
                        (\A j \in 1..Len(ret.headers) :
                            ret.headers[j] = ret.headers[k] => j = k)
                        /\ ret.headers[k] # ProtoKey
                        => StrictEquals(RowGet(ret.data[n], ret.headers[k]),
                                        JsStr(FieldAt(lines[n + 1], k)))

\* C9's case: a file with two header names used once each and a data line
\* with a value for the first only has been parsed.
C9_Witness ==
    /\ Returned("parseCSVData")
    /\ ret.headers = << <<"a">>, <<"b">> >>
    /\ Len(ret.data) = 1
    /\ StrictEquals(RowGet(ret.data[1], <<"a">>), JsStr(<<"b">>))
    /\ StrictEquals(RowGet(ret.data[1], <<"b">>), JsStr(<<>>))

\* The k-th comma-separated token of a line, trimmed.
TokenAt(line, k) == Trim(Split(Trim(line), ",")[k])

\* The token is enclosed in a pair of single or of double quotes.
EnclosedInQuotes(token) ==
    /\ Len(token) >= 2
    /\ token[1] \in QuoteChars
    /\ token[Len(token)] = token[1]

\* The token without its enclosing pair of quotes, if it has one.
WithoutEnclosingPair(token) ==
    IF EnclosedInQuotes(token) THEN SubSeq(token, 2, Len(token) - 1) ELSE token

\* C20: the parser's quote-stripping removes exactly one enclosing pair of
\* quotes: after trimming, a header or value token that is enclosed in a pair
\* of single or double quotes has that one pair removed, and a token that is
\* not enclosed in a pair of quotes (one with a quote character at only one
\* end, say) is returned unchanged.  The values are read where the header
\* names are distinct, so that each is stored under its own name.
C20_StripsOneEnclosingPair ==
    (Returned("parseCSVData") /\ Len(NonBlankLines(arg)) >= 2) =>
        LET lines == NonBlankLines(arg)
            distinct == \A i, j \in 1..Len(ret.headers) :
                            ret.headers[i] = ret.headers[j] => i = j
        IN  /\ \A k \in 1..Len(ret.headers) :
                  ret.headers[k] = WithoutEnclosingPair(TokenAt(lines[1], k))
            /\ distinct =>
                  \A n \in 1..Len(ret.data) :
                     \A k \in 1..Len(ret.headers) :
                        (/\ ret.headers[k] # ProtoKey
                         /\ k <= Len(Split(Trim(lines[n + 1]), ",")))
                        => StrictEquals(RowGet(ret.data[n], ret.headers[k]),
                                        JsStr(WithoutEnclosingPair(TokenAt(lines[n + 1], k))))

(***************************************************************************)
(* The upload workflow: CSVUpload.handleFileUpload and the useUploadCSV    *)
(* mutation.  A file is [name, text, present]; the file input hands the    *)
(* handler the picked file, or none.                                       *)
(***************************************************************************)
File(name, text) == [name |-> name, text |-> text, present |-> TRUE]

DataCsv == <<"d", "a", "t", "a", ".", "c", "s", "v">>
UpperCsv == <<"D", "A", "T", "A", ".", "C", "S", "V">>
NotesTxt == <<"n", "o", "t", "e", "s", ".", "t", "x", "t">>
CsvExtension == <<".", "c", "s", "v">>
SelectCsvText == <<"P", "l", "e", "a", "s", "e", " ", "s", "e", "l", "e", "c", "t", " ", "a", " ", "C", "S", "V", " ", "f", "i", "l", "e">>
UploadFailedText == <<"U", "p", "l", "o", "a", "d", " ", "f", "a", "i", "l", "e", "d">>

Files ==
    {File(DataCsv, text) : text \in ExampleFiles \cup {<<>>}}
    \cup {File(UpperCsv, EmptyFieldFile), File(NotesTxt, ValidFile)}

UploadInit ==
    /\ fn = ""
    /\ arg = <<>>
    /\ ret = <<>>
    /\ pc = "ui"
    /\ UploadIdle
    /\ HomeIdle
    /\ GridIdle
    /\ ResetIdle

\* A bug: the file's extension is not looked at.
handleFileUploadAnyName(file) ==
    /\ mutation # "pending"
    /\ file.present
    /\ Len(requests) < MaxUploads
    /\ selected' = file
    /\ inputValue' = <<>>
    /\ requests' = Append(requests, file)
    /\ mutation' = "pending"
    /\ UNCHANGED <<toasts>>

\* The file input's onChange; the input is disabled while the upload is pending.
handleFileUpload(file) ==
    /\ mutation # "pending"
    /\ \/ \* if (!file) return;
          /\ ~file.present
          /\ selected' = file
          /\ UNCHANGED <<inputValue, requests, mutation, toasts>>
       \/ \* if (!file.name.toLowerCase().endsWith(".csv")) { toast.error(...); return; }
          /\ file.present
          /\ ~EndsWith(ToLowerCase(file.name), CsvExtension)
          /\ Len(toasts) < MaxToasts
          /\ selected' = file
          /\ inputValue' = file.name
          /\ toasts' = Append(toasts, SelectCsvText)
          /\ UNCHANGED <<requests, mutation>>
       \/ \* fileInputRef.current.value = ""; uploadMutation.mutate(file);
          /\ file.present
          /\ EndsWith(ToLowerCase(file.name), CsvExtension)
          /\ Len(requests) < MaxUploads
          /\ selected' = file
          /\ inputValue' = <<>>
          /\ requests' = Append(requests, file)
          /\ mutation' = "pending"
          /\ UNCHANGED <<toasts>>

SelectFile ==
    /\ \E file \in Files \cup {NoFile} : handleFileUpload(file)
    /\ UNCHANGED <<fn, arg, ret, pc, homeVars, gridVars, resetVars>>

\* The request resolved: onSuccess, which shows nothing (the queries it
\* invalidates are not part of this model).
UploadResolved ==
    /\ mutation = "pending"
    /\ mutation' = "success"
    /\ UNCHANGED <<fn, arg, ret, pc, selected, inputValue, requests, toasts, homeVars, gridVars, resetVars>>

\* The request was rejected: onError shows "Upload failed".
UploadRejected ==
    /\ mutation = "pending"
    /\ Len(toasts) < MaxToasts
    /\ mutation' = "error"
    /\ toasts' = Append(toasts, UploadFailedText)
    /\ UNCHANGED <<fn, arg, ret, pc, selected, inputValue, requests, homeVars, gridVars, resetVars>>

UploadNext == SelectFile \/ UploadResolved \/ UploadRejected

SpecUpload == UploadInit /\ [][UploadNext]_vars

(***************************************************************************)
(* Claims about the upload workflow.                                       *)
(***************************************************************************)
\* The local checks: the parser reports no error, no required header is
\* missing and no required field is empty.
PassesLocalChecks(text) ==
    LET parsed == parseCSVData(text)
    IN  /\ parsed.errors = <<>>
        /\ validateRequiredHeaders(parsed.headers).isValid
        /\ validateCSVDataRows(parsed.data, parsed.headers).isValid

\* C2, as stated: a selected CSV file is transmitted to the backend only after
\* passing the local checks; for a file with fewer than two non-empty lines, a
\* file missing a required header or a file with an empty required field, no
\* upload request is ever issued.
C2_OnlyCheckedFilesUploaded ==
    \A i \in 1..Len(requests) : PassesLocalChecks(requests[i].text)

\* C2, amended: a selected file is transmitted to the backend exactly when its
\* name ends in ".csv" (in any letter casing); its content is not checked
\* before the upload.  Every request carries a file so named, and the last
\* file picked, if so named, is the file of the last request.
C2_UploadedIffCsvName ==
    /\ \A i \in 1..Len(requests) :
          /\ requests[i].present
          /\ Len(requests[i].name) >= 4
          /\ ToLowerCase(SubSeq(requests[i].name, Len(requests[i].name) - 3,
                                Len(requests[i].name))) = CsvExtension
    /\ (selected.present
          /\ Len(selected.name) >= 4
          /\ ToLowerCase(SubSeq(selected.name, Len(selected.name) - 3,
                                Len(selected.name))) = CsvExtension)
       => /\ requests # <<>>
          /\ requests[Len(requests)] = selected

\* C2's case: a file that fails the local checks (its required field is empty)
\* has been posted to the backend, after a file with another extension was
\* refused.
C2_Witness ==
    /\ Len(requests) = 1
    /\ requests[1] = File(UpperCsv, EmptyFieldFile)
    /\ ~PassesLocalChecks(requests[1].text)
    /\ toasts = <<SelectCsvText>>
    /\ mutation = "success"

(***************************************************************************)
(* components/PasswordInput.tsx                                            *)
(***************************************************************************)
MinPasswordLength == 8

\* The characters of the class [!@#$%^&*(),.?":{}|<>]
SpecialCharClass ==
    {"!", "@", "#", "$", "%", "^", "&", "*", "(", ")", ",", ".", "?", "\"",
     ":", "{", "}", "|", "<", ">"}

\* RegExp.prototype.test for a class of characters
TestClass(class, s) == \E i \in 1..Len(s) : s[i] \in class

validatePassword(password) ==
    LET hasMinLength == Len(password) >= MinPasswordLength
        hasUpperCase == TestClass({UpperChars[i] : i \in 1..26}, password)
        hasLowerCase == TestClass({LowerChars[i] : i \in 1..26}, password)
        hasSpecialChar == TestClass(SpecialCharClass, password)
    IN  [hasMinLength |-> hasMinLength,
         hasUpperCase |-> hasUpperCase,
         hasLowerCase |-> hasLowerCase,
         hasSpecialChar |-> hasSpecialChar,
         isValid |-> hasMinLength /\ hasUpperCase /\ hasLowerCase /\ hasSpecialChar]

VeryWeakText == <<"V", "e", "r", "y", " ", "W", "e", "a", "k">>
WeakText == <<"W", "e", "a", "k">>
FairText == <<"F", "a", "i", "r">>
GoodText == <<"G", "o", "o", "d">>
StrongText == <<"S", "t", "r", "o", "n", "g">>
RedColor == <<"b", "g", "-", "r", "e", "d", "-", "5", "0", "0">>
OrangeColor == <<"b", "g", "-", "o", "r", "a", "n", "g", "e", "-", "5", "0", "0">>
YellowColor == <<"b", "g", "-", "y", "e", "l", "l", "o", "w", "-", "5", "0", "0">>
BlueColor == <<"b", "g", "-", "b", "l", "u", "e", "-", "5", "0", "0">>
GreenColor == <<"b", "g", "-", "g", "r", "e", "e", "n", "-", "5", "0", "0">>

\* Object.values(validation).filter(Boolean).length
TrueValues(validation) ==
    Cardinality({key \in DOMAIN validation : validation[key]})

getPasswordStrength(password) ==
    LET validation == validatePassword(password)
        score == TrueValues(validation) - 1
    IN  IF score = 0 THEN [text |-> VeryWeakText, color |-> RedColor]
        ELSE IF score = 1 THEN [text |-> WeakText, color |-> OrangeColor]
        ELSE IF score = 2 THEN [text |-> FairText, color |-> YellowColor]
        ELSE IF score = 3 THEN [text |-> GoodText, color |-> BlueColor]
        ELSE [text |-> StrongText, color |-> GreenColor]

(***************************************************************************)
(* The password validator's inputs: every password over PasswordAlphabet   *)
(* of length at most MaxPasswordLen, and some passwords with other         *)
(* characters.                                                             *)
(***************************************************************************)
PasswordAlphabet == {"a", "A", "1", "!"}

ExamplePasswords ==
    {<<"A", "b", "c", "d", "e", "f", "1", "(">>,
     <<"A", "b", "c", "d", "e", "f", "1", "-">>,
     <<"A", "b", "c", " ", "e", "f", "1", "&">>,
     <<"P", "a", "s", "s", "w", "o", "r", "d", "1", "2", "3", "$">>}

PwdInit ==
    /\ fn \in {"validatePassword", "getPasswordStrength"}
    /\ \/ \E k \in 0..MaxPasswordLen : arg \in [1..k -> PasswordAlphabet]
       \/ arg \in ExamplePasswords
    /\ ret = <<>>
    /\ pc = "call"
    /\ UploadIdle
    /\ HomeIdle
    /\ GridIdle
    /\ ResetIdle

CallValidatePassword ==
    /\ pc = "call"
    /\ fn = "validatePassword"
    /\ ret' = validatePassword(arg)
    /\ pc' = "done"
    /\ UNCHANGED <<fn, arg, uploadVars, homeVars, gridVars, resetVars>>

CallGetPasswordStrength ==
    /\ pc = "call"
    /\ fn = "getPasswordStrength"
    /\ ret' = getPasswordStrength(arg)
    /\ pc' = "done"
    /\ UNCHANGED <<fn, arg, uploadVars, homeVars, gridVars, resetVars>>

PwdNext ==
    \/ CallValidatePassword
    \/ CallGetPasswordStrength

SpecPwd == PwdInit /\ [][PwdNext]_vars

(***************************************************************************)
(* Claims about the password validator.                                    *)
(***************************************************************************)
\* The special characters the API documentation lists: (@$!%*?&)
DocumentedSpecialChars == {"@", "$", "!", "%", "*", "?", "&"}

\* C15: a password for which validatePassword returns isValid = true satisfies
\* every documented password requirement: at least 8 characters, at least one
\* lowercase letter, one uppercase letter, one number and one special
\* character.
C15_ValidMeetsDocumentedRequirements ==
    (Returned("validatePassword") /\ ret.isValid) =>
        /\ Len(arg) >= 8
        /\ \E i \in 1..Len(arg) : arg[i] \in {LowerChars[k] : k \in 1..26}
        /\ \E i \in 1..Len(arg) : arg[i] \in {UpperChars[k] : k \in 1..26}
        /\ \E i \in 1..Len(arg) : arg[i] \in {Digits[k] : k \in 1..10}
        /\ \E i \in 1..Len(arg) : arg[i] \in DocumentedSpecialChars

\* The number of criteria a password satisfies among minimum length,
\* uppercase, lowercase and special character.
SatisfiedCriteria(password) ==
    LET validation == validatePassword(password)
    IN  Cardinality({key \in {"hasMinLength", "hasUpperCase", "hasLowerCase",
                              "hasSpecialChar"} : validation[key]})

\* The label the strength indicator is meant to show for k satisfied criteria.
LabelOf(k) ==
    IF k = 0 THEN VeryWeakText
    ELSE IF k = 1 THEN WeakText
    ELSE IF k = 2 THEN FairText
    ELSE IF k = 3 THEN GoodText
    ELSE StrongText

\* C28: the label getPasswordStrength returns is the label of the number of
\* satisfied criteria (Very Weak for 0, Weak for 1, Fair for 2, Good for 3,
\* Strong for 4), so that Strong is returned only for a valid password.
C28_LabelFollowsCriteria ==
    Returned("getPasswordStrength") =>
        /\ ret.text = LabelOf(SatisfiedCriteria(arg))
        /\ (ret.text = StrongText => validatePassword(arg).isValid)

(***************************************************************************)
(* pages/HomePage.tsx, hooks/useCSVData.ts, the pagination controls of     *)
(* components/DataGrid.tsx.  The backend answers a request for page p with *)
(* limit l with the rows (p - 1) * l + 1 .. p * l of the result set and    *)
(* with the size of the result set.                                        *)
(***************************************************************************)
\* csvApi.getData(page, 40, search)
PageLimit == 40

\* Math.ceil(total / 100)
RowsPerPageCounted == 100

SearchTerms == {<<>>, <<"a">>}

\* Math.ceil(n / d) for natural numbers
Ceil(n, d) == (n + d - 1) \div d

\* queryData: the response for the current query key, NoResponse (undefined)
\* while there is none.
queryData ==
    IF /\ response.present
       /\ response.page = currentPage
       /\ response.search = debouncedSearchTerm
    THEN response
    ELSE NoResponse

\* queryData?.total || 0
total == IF queryData.present THEN queryData.total ELSE 0

totalPages == Ceil(total, RowsPerPageCounted)

HomeInit ==
    /\ fn = ""
    /\ arg = <<>>
    /\ ret = <<>>
    /\ pc = "ui"
    /\ UploadIdle
    /\ GridIdle
    /\ ResetIdle
    /\ currentPage = 1
    /\ searchTerm = <<>>
    /\ debouncedSearchTerm = <<>>
    /\ response = NoResponse
    /\ \E n \in 0..MaxTotal : \E m \in {0, n \div 3, n} :
          resultSize = [term \in SearchTerms |-> IF term = <<>> THEN n ELSE m]

\* A bug: the page is left where it was.
handleSearchKeepsPage(term) ==
    /\ searchTerm' = term
    /\ UNCHANGED <<currentPage, debouncedSearchTerm, response, resultSize>>

handleSearch(term) ==
    /\ searchTerm' = term
    /\ currentPage' = IF currentPage # 1 THEN 1 ELSE currentPage
    /\ UNCHANGED <<debouncedSearchTerm, response, resultSize>>

\* The search box's onChange.
Search ==
    /\ \E term \in SearchTerms :
          /\ handleSearch(term)
          /\ fn' = "handleSearch"
          /\ arg' = term
    /\ UNCHANGED <<ret, pc, uploadVars, gridVars, resetVars>>

\* useDebounce(searchTerm, 300): the debounced text catches up with the text.
Debounce ==
    /\ debouncedSearchTerm # searchTerm
    /\ debouncedSearchTerm' = searchTerm
    /\ UNCHANGED <<fn, arg, ret, pc, uploadVars, gridVars, resetVars,
                   currentPage, searchTerm, response, resultSize>>

\* The queryFn of useCSVData resolves for the current query key.
QueryFn ==
    /\ ~queryData.present
    /\ response' = [present |-> TRUE,
                    page |-> currentPage,
                    limit |-> PageLimit,
                    search |-> debouncedSearchTerm,
                    total |-> resultSize[debouncedSearchTerm]]
    /\ UNCHANGED <<fn, arg, ret, pc, uploadVars, gridVars, resetVars,
                   currentPage, searchTerm, debouncedSearchTerm, resultSize>>

\* onPageChange={setCurrentPage}
onPageChange(page) ==
    /\ currentPage' = page
    /\ fn' = "onPageChange"
    /\ arg' = page
    /\ UNCHANGED <<ret, pc, uploadVars, gridVars, resetVars,
                   searchTerm, debouncedSearchTerm, response, resultSize>>

\* The Previous button: shown when totalPages > 1, disabled on page 1.
PreviousPage ==
    /\ totalPages > 1
    /\ currentPage # 1
    /\ onPageChange(currentPage - 1)

\* The Next button: shown when totalPages > 1, disabled on page totalPages.
NextPage ==
    /\ totalPages > 1
    /\ currentPage # totalPages
    /\ currentPage < MaxPage
    /\ onPageChange(currentPage + 1)

\* The number of rows of the page the grid displays.
DisplayedRows ==
    IF queryData.present
    THEN LET rest == queryData.total - (queryData.page - 1) * queryData.limit
         IN  IF rest <= 0 THEN 0
             ELSE IF rest < queryData.limit THEN rest ELSE queryData.limit
    ELSE 0

\* toast.success(`${ids.length} row(s) deleted successfully!`)
DeletedText == <<" ", "r", "o", "w", "(", "s", ")", " ", "d", "e", "l", "e", "t", "e", "d", " ", "s", "u", "c", "c", "e", "s", "s", "f", "u", "l", "l", "y", "!">>

\* onSuccess of useDeleteRows: the displayed rows that were selected, one of
\* them or all, are gone from the backend (rows matching a search are rows of
\* the whole set; a row deleted without a search is taken not to match "a"
\* where that is possible), a toast says so and ["csvData"] is invalidated.
\* At most MaxToasts deletions are followed.
RowsDeleted ==
    /\ Len(toasts) < MaxToasts
    /\ \E d \in {1, DisplayedRows} :
          /\ d >= 1
          /\ d <= DisplayedRows
          /\ d <= resultSize[debouncedSearchTerm]
          /\ resultSize' =
                [term \in SearchTerms |->
                    IF term = debouncedSearchTerm \/ term = <<>>
                    THEN resultSize[term] - d
                    ELSE IF resultSize[term] < resultSize[<<>>] - d
                         THEN resultSize[term]
                         ELSE resultSize[<<>>] - d]
          /\ toasts' = Append(toasts, NatToString(d) \o DeletedText)
    /\ UNCHANGED <<fn, arg, ret, pc, selected, inputValue, mutation, requests,
                   gridVars, resetVars, currentPage, searchTerm,
                   debouncedSearchTerm, response>>

\* onSuccess of useUploadCSV with data.success: the backend holds a hundred
\* rows more (none matching "a"), and ["csvData"] is invalidated.
RowsUploaded ==
    /\ resultSize[<<>>] + RowsPerPageCounted <= MaxTotal
    /\ resultSize' = [resultSize EXCEPT ![<<>>] = @ + RowsPerPageCounted]
    /\ UNCHANGED <<fn, arg, ret, pc, uploadVars, gridVars, resetVars,
                   currentPage, searchTerm, debouncedSearchTerm, response>>

\* The invalidated query is fetched again for the current query key.
Refetch ==
    /\ queryData.present
    /\ queryData.total # resultSize[debouncedSearchTerm]
    /\ response' = [response EXCEPT !.total = resultSize[debouncedSearchTerm]]
    /\ UNCHANGED <<fn, arg, ret, pc, uploadVars, gridVars, resetVars,
                   currentPage, searchTerm, debouncedSearchTerm, resultSize>>

HomeNext ==
    \/ Search
    \/ Debounce
    \/ QueryFn
    \/ PreviousPage
    \/ NextPage
    \/ RowsDeleted
    \/ RowsUploaded
    \/ Refetch

SpecHome == HomeInit /\ [][HomeNext]_vars

(***************************************************************************)
(* Claims about the home page.                                             *)
(***************************************************************************)
\* Row r of the result set is on page p when the pages hold limit rows.
RowOnPage(r, p, limit) == (p - 1) * limit < r /\ r <= p * limit

\* C16: the data grid loads pages of 100 rows and computes the page count as
\* ceil(total / 100) with the same page size, so that for any total every row
\* of the result set is on some page of 1..totalPages, the pages the
\* Previous/Next controls reach.
C16_EveryRowOnSomePage ==
    queryData.present =>
        /\ queryData.limit = 100
        /\ totalPages = Ceil(total, queryData.limit)
        /\ \A r \in 1..total : \E p \in 1..totalPages : RowOnPage(r, p, queryData.limit)

\* C17: whenever the search term is changed on the home page, the current page
\* is reset to 1: after handleSearch(term), for any term and any previous
\* page, currentPage = 1 (and the search box holds term).
C17_SearchResetsPage ==
    fn = "handleSearch" => currentPage = 1 /\ searchTerm = arg

\* C17's case: handleSearch("a") was called on page 2 of the unfiltered
\* result set, whose response is still the last one received.
C17_Witness ==
    /\ fn = "handleSearch"
    /\ arg = <<"a">>
    /\ response.present
    /\ response.page = 2
    /\ response.search = <<>>
    /\ debouncedSearchTerm = <<>>
    /\ currentPage = 1

\* C30: whenever the home page has the response for its query, the current
\* page is within range: 1 <= currentPage <= max(1, totalPages), with
\* totalPages = ceil(total / 100).
C30_CurrentPageInRange ==
    queryData.present =>
        /\ totalPages = Ceil(queryData.total, 100)
        /\ 1 <= currentPage
        /\ currentPage <= (IF totalPages > 1 THEN totalPages ELSE 1)

(***************************************************************************)
(* The utilities applied in turn to one CSV text, as a caller checking a   *)
(* file would: parseCSVData, then validateRequiredHeaders on its headers,  *)
(* validateCSVDataRows on its rows and headers, sanitizeCSVRow on each     *)
(* row.  A call ends by returning (its result is recorded in ret) or by    *)
(* throwing (pc = "threw").  The rows and headers the parser returns are   *)
(* objects and strings, on which the later functions call no method that   *)
(* can be missing; the parser itself calls csvText.split and               *)
(* lines[0].trim.                                                          *)
(***************************************************************************)
\* A bug: the early return for fewer than two lines is missing, so the header
\* line is read from an empty list.
parseCSVDataThrowsNoEarlyReturn(csvText) ==
    \/ csvText.t # "string"
    \/ /\ csvText.t = "string"
       /\ Len(NonEmptyLines(csvText.v)) = 0

\* parseCSVData throws a TypeError when csvText has no method split (it is
\* not a string), or when line 396 is reached and lines[0] is undefined.
parseCSVDataThrows(csvText) ==
    \/ csvText.t # "string"
    \/ /\ csvText.t = "string"
       /\ ~(Len(NonEmptyLines(csvText.v)) < 2)
       /\ Len(NonEmptyLines(csvText.v)) = 0

NotCalled == <<>>

CheckTexts ==
    {JsStr(text) : text \in StringsUpTo(ParseAlphabet, MaxCheckLen) \cup ExampleFiles}

CheckInit ==
    /\ fn = "parseCSVData"
    /\ arg \in CheckTexts \cup {JsNull, JsUndefined}
    /\ ret = [parsed |-> NotCalled, headerCheck |-> NotCalled,
              rowCheck |-> NotCalled, sanitized |-> NotCalled]
    /\ pc = "call"
    /\ UploadIdle
    /\ HomeIdle
    /\ GridIdle
    /\ ResetIdle

CheckParseCSVData ==
    /\ pc = "call"
    /\ fn = "parseCSVData"
    /\ \/ /\ parseCSVDataThrows(arg)
          /\ pc' = "threw"
          /\ UNCHANGED <<fn, ret>>
       \/ /\ ~parseCSVDataThrows(arg)
          /\ ret' = [ret EXCEPT !.parsed = parseCSVData(arg.v)]
          /\ fn' = "validateRequiredHeaders"
          /\ pc' = "call"
    /\ UNCHANGED <<arg, uploadVars, homeVars, gridVars, resetVars>>

CheckValidateRequiredHeaders ==
    /\ pc = "call"
    /\ fn = "validateRequiredHeaders"
    /\ ret' = [ret EXCEPT !.headerCheck = validateRequiredHeaders(ret.parsed.headers)]
    /\ fn' = "validateCSVDataRows"
    /\ UNCHANGED <<arg, pc, uploadVars, homeVars, gridVars, resetVars>>

CheckValidateCSVDataRows ==
    /\ pc = "call"
    /\ fn = "validateCSVDataRows"
    /\ ret' = [ret EXCEPT !.rowCheck =
                  validateCSVDataRows(ret.parsed.data, ret.parsed.headers)]
    /\ fn' = "sanitizeCSVRow"
    /\ UNCHANGED <<arg, pc, uploadVars, homeVars, gridVars, resetVars>>

CheckSanitizeCSVRow ==
    /\ pc = "call"
    /\ fn = "sanitizeCSVRow"
    /\ ret' = [ret EXCEPT !.sanitized =
                  [n \in 1..Len(ret.parsed.data) |-> sanitizeCSVRow(ret.parsed.data[n])]]
    /\ pc' = "done"
    /\ UNCHANGED <<fn, arg, uploadVars, homeVars, gridVars, resetVars>>

CheckNext ==
    \/ CheckParseCSVData
    \/ CheckValidateRequiredHeaders
    \/ CheckValidateCSVDataRows
    \/ CheckSanitizeCSVRow

SpecCheck == CheckInit /\ [][CheckNext]_vars

(***************************************************************************)
(* Claims about faults.                                                    *)
(***************************************************************************)
\* The calls made so far, in order.
CallsMade ==
    IF pc = "done" THEN 4
    ELSE CASE fn = "parseCSVData" -> 0
           [] fn = "validateRequiredHeaders" -> 1
           [] fn = "validateCSVDataRows" -> 2
           [] fn = "sanitizeCSVRow" -> 3

\* C18: none of the parser, header validator, row validator or sanitizer
\* functions faults on expected bad input: for every input text (empty,
\* header-only, rows with fewer or more values than headers, empty or
\* duplicated header names) no call throws, and each returns a result value
\* that describes the problem: the parser's error for a text of fewer than two
\* lines, the missing headers with isValid = false, the empty-value tuples
\* with isValid = false, a string for every sanitized value.
C18_NoFaultOnBadInput ==
    arg.t = "string" =>
        /\ pc # "threw"
        /\ CallsMade >= 1 =>
              /\ Len(NonBlankLines(arg.v)) < 2 <=> ret.parsed.errors # <<>>
              /\ ret.parsed.errors # <<>> =>
                    ret.parsed.headers = <<>> /\ ret.parsed.data = <<>>
        /\ CallsMade >= 2 =>
              /\ ret.headerCheck.isValid <=> ret.headerCheck.missingHeaders = <<>>
              /\ \A R \in RequiredSet :
                    (\A i \in 1..Len(ret.parsed.headers) :
                        ~Represents(ret.parsed.headers[i], R))
                    => \E k \in 1..Len(ret.headerCheck.missingHeaders) :
                          ret.headerCheck.missingHeaders[k] = R
        /\ CallsMade >= 3 =>
              /\ ret.rowCheck.isValid <=> ret.rowCheck.emptyValueErrors = <<>>
              /\ ret.rowCheck.totalErrors = Len(ret.rowCheck.emptyValueErrors)
        /\ CallsMade >= 4 =>
              /\ Len(ret.sanitized) = Len(ret.parsed.data)
              /\ \A n \in 1..Len(ret.sanitized) :
                    \A key \in DOMAIN ret.sanitized[n] :
                        ret.sanitized[n][key].t = "string"

\* C18's case: the four calls have returned for a text whose header line
\* repeats a name and whose data line has more values than there are distinct
\* headers; the required headers are reported missing.
C18_Witness ==
    /\ pc = "done"
    /\ arg.t = "string"
    /\ ret.parsed.errors = <<>>
    /\ Len(ret.parsed.headers) = 2
    /\ ret.parsed.headers[1] = ret.parsed.headers[2]
    /\ ret.parsed.headers[1] # <<>>
    /\ Len(ret.parsed.data) = 1
    /\ Len(ret.headerCheck.warnings) = 1
    /\ ~ret.headerCheck.isValid

(***************************************************************************)
(* components/DataGrid.tsx: editing a row.  The grid shows the rows of its *)
(* data prop; Edit copies a row into editData, the inputs change editData, *)
(* Save validates and sends it through onUpdateRow (HomePage's             *)
(* updateRowMutation.mutate), Cancel drops it.  What alert shows is kept   *)
(* in ret.                                                                 *)
(***************************************************************************)
IdField == <<"i", "d">>
AssemblyMarkField == <<"a", "s", "s", "e", "m", "b", "l", "y", "_", "m", "a", "r", "k">>
MaterialField == <<"m", "a", "t", "e", "r", "i", "a", "l">>
ThicknessField == <<"t", "h", "i", "c", "k", "n", "e", "s", "s">>
QuantityField == <<"q", "u", "a", "n", "t", "i", "t", "y">>
UpdatedAtField == <<"u", "p", "d", "a", "t", "e", "d", "_", "a", "t">>

\* The keys of a CSVRow, in the order of the interface.
CSVRowKeys ==
    <<IdField, PartMarkField, AssemblyMarkField, MaterialField, ThicknessField,
      QuantityField, NotesField, UpdatedAtField>>

\* Object.keys(row) for a row with keys of CSVRow.  Each required header is the
\* normalized form of one key only, so the place of a key in the list does not
\* show in validateRowData's result.
ObjectKeys(row) ==
    LET Own(key, i) == key \in DOMAIN row
    IN  Filter(CSVRowKeys, Own)

CannotSaveText == <<"C", "a", "n", "n", "o", "t", " ", "s", "a", "v", "e", ":", " ">>
MissingFieldsText == <<"M", "i", "s", "s", "i", "n", "g", " ", "r", "e", "q", "u", "i", "r", "e", "d", " ", "f", "i", "e", "l", "d", "s", ":", " ">>
EmptyFieldsText == <<"E", "m", "p", "t", "y", " ", "r", "e", "q", "u", "i", "r", "e", "d", " ", "f", "i", "e", "l", "d", "s", ":", " ">>

\* The errorMessage handleSave builds for a failed validation.
CannotSaveMessage(validation) ==
    CannotSaveText
        \o (IF Len(validation.missingFields) > 0
            THEN MissingFieldsText \o Join(validation.missingFields, <<",", " ">>)
                     \o <<".", " ">>
            ELSE <<>>)
        \o (IF Len(validation.emptyRequiredFields) > 0
            THEN EmptyFieldsText \o Join(validation.emptyRequiredFields, <<",", " ">>)
                     \o <<".">>
            ELSE <<>>)

\* An update request: updateRowMutation.mutate({ id, data }).
UpdateRequest(id, row) == [id |-> id, data |-> row]

\* A bug: the edit data is sent without the validation.
handleSaveNoValidation(id) ==
    /\ requests' = Append(requests, UpdateRequest(id, sanitizeCSVRow(editData)))
    /\ mutation' = "pending"
    /\ editingRow' = JsNull
    /\ editData' = <<>>
    /\ UNCHANGED ret

\* A bug: the edit data is sent as it is, not sanitized.
handleSaveUnsanitized(id) ==
    LET requiredFieldValidation == validateRowData(editData, ObjectKeys(editData))
    IN  IF ~requiredFieldValidation.isValid
        THEN /\ ret' = CannotSaveMessage(requiredFieldValidation)
             /\ UNCHANGED <<requests, mutation, editingRow, editData>>
        ELSE /\ requests' = Append(requests, UpdateRequest(id, editData))
             /\ mutation' = "pending"
             /\ editingRow' = JsNull
             /\ editData' = <<>>
             /\ UNCHANGED ret

handleEdit(row) ==
    /\ editingRow' = row[IdField]
    /\ editData' = row

handleSave(id) ==
    LET requiredFieldValidation == validateRowData(editData, ObjectKeys(editData))
    IN  IF ~requiredFieldValidation.isValid
        THEN \* alert(errorMessage); return;
             /\ ret' = CannotSaveMessage(requiredFieldValidation)
             /\ UNCHANGED <<requests, mutation, editingRow, editData>>
        ELSE \* onUpdateRow(id, sanitizedData); setEditingRow(null); setEditData({});
             /\ requests' = Append(requests, UpdateRequest(id, sanitizeCSVRow(editData)))
             /\ mutation' = "pending"
             /\ editingRow' = JsNull
             /\ editData' = <<>>
             /\ UNCHANGED ret

handleCancel ==
    /\ editingRow' = JsNull
    /\ editData' = <<>>

\* setEditData((prev) => ({ ...prev, [field]: value })); the content scan before
\* it only writes to the console.
handleInputChange(field, value) ==
    editData' = [key \in DOMAIN editData \cup {field} |->
                    IF key = field THEN value ELSE editData[key]]

(***************************************************************************)
(* The editing workflow's inputs: a grid of two rows, the first complete   *)
(* with a formula in its notes, the second with no material and a null     *)
(* thickness; the input changes of EditInputs.  At most MaxSaves update    *)
(* requests are sent.                                                      *)
(***************************************************************************)
RowOne ==
    (IdField :> JsNum(1)) @@ (PartMarkField :> JsStr(P1))
        @@ (AssemblyMarkField :> JsStr(A1)) @@ (MaterialField :> JsStr(Steel))
        @@ (ThicknessField :> JsStr(TwoMm)) @@ (QuantityField :> JsNum(1))
        @@ (NotesField :> JsStr(<<"=", "1">>)) @@ (UpdatedAtField :> JsStr(<<"-">>))

RowTwo ==
    (IdField :> JsNum(2)) @@ (PartMarkField :> JsStr(<<"-", "P">>))
        @@ (AssemblyMarkField :> JsStr(A1)) @@ (ThicknessField :> JsNull)
        @@ (QuantityField :> JsNum(1)) @@ (UpdatedAtField :> JsStr(<<"-">>))

EditInputs ==
    {<<PartMarkField, JsStr(<<>>)>>, <<PartMarkField, JsStr(<<"+", "P">>)>>,
     <<ThicknessField, JsStr(TwoMm)>>, <<MaterialField, JsStr(Steel)>>}

EditInit ==
    /\ fn = ""
    /\ arg = <<>>
    /\ ret = <<>>
    /\ pc = "ui"
    /\ UploadIdle
    /\ HomeIdle
    /\ ResetIdle
    /\ data = <<RowOne, RowTwo>>
    /\ editingRow = JsNull
    /\ editData = <<>>
    /\ selectedRows = <<>>

\* The row being edited is displayed: its inputs and its Save and Cancel
\* buttons are there (editingRow === row.id).
EditingShown == \E i \in 1..Len(data) : StrictEquals(editingRow, data[i][IdField])

editFrame == <<pc, selected, inputValue, homeVars, selectedRows, resetVars>>

\* The Edit button of a row that is not being edited.
Edit ==
    /\ \E i \in 1..Len(data) :
          /\ ~StrictEquals(editingRow, data[i][IdField])
          /\ handleEdit(data[i])
          /\ arg' = data[i][IdField].v
    /\ fn' = "handleEdit"
    /\ UNCHANGED <<ret, mutation, requests, toasts, data, editFrame>>

\* An input of the row being edited.
InputChange ==
    /\ EditingShown
    /\ \E input \in EditInputs :
          /\ handleInputChange(input[1], input[2])
          /\ arg' = input[1]
    /\ fn' = "handleInputChange"
    /\ UNCHANGED <<ret, mutation, requests, toasts, data, editingRow, editFrame>>

\* The Save button of the row being edited, disabled while isUpdating.
Save ==
    /\ EditingShown
    /\ mutation # "pending"
    /\ Len(requests) < MaxSaves
    /\ handleSave(editingRow.v)
    /\ fn' = "handleSave"
    /\ arg' = editingRow.v
    /\ UNCHANGED <<toasts, data, editFrame>>

\* The Cancel button of the row being edited, disabled while isUpdating.
Cancel ==
    /\ EditingShown
    /\ mutation # "pending"
    /\ handleCancel
    /\ fn' = "handleCancel"
    /\ arg' = <<>>
    /\ UNCHANGED <<ret, mutation, requests, toasts, data, editFrame>>

\* The update request resolved: onSuccess invalidates the queries and the rows
\* are fetched again, the updated row as it was sent.  (The toasts of the
\* mutation are left out of the state.)
UpdateResolved ==
    /\ mutation = "pending"
    /\ mutation' = "success"
    /\ LET sent == requests[Len(requests)]
       IN  data' = [i \in 1..Len(data) |->
                       IF data[i][IdField].v = sent.id THEN sent.data ELSE data[i]]
    /\ fn' = "onSuccess"
    /\ arg' = <<>>
    /\ UNCHANGED <<ret, requests, toasts, editingRow, editData, editFrame>>

\* The update request was rejected: the rows stay as they are.
UpdateRejected ==
    /\ mutation = "pending"
    /\ mutation' = "error"
    /\ fn' = "onError"
    /\ arg' = <<>>
    /\ UNCHANGED <<ret, requests, toasts, data, editingRow, editData, editFrame>>

EditNext ==
    \/ Edit
    \/ InputChange
    \/ Save
    \/ Cancel
    \/ UpdateResolved
    \/ UpdateRejected

SpecEdit == EditInit /\ [][EditNext]_vars

(***************************************************************************)
(* Claims about editing.                                                   *)
(***************************************************************************)
RequiredFields == {PartMarkField, AssemblyMarkField, MaterialField, ThicknessField}

\* The field is null, missing or blank in the row.
BlankField(row, field) ==
    \/ field \notin DOMAIN row
    \/ row[field].t \in {"null", "undefined"}
    \/ \A i \in 1..Len(ToJsString(row[field])) : ToJsString(row[field])[i] \in WhiteSpace

\* C24: a Save on edit data with a required field null, missing or blank sends
\* no update request and leaves editingRow and editData as they are; an update
\* request is sent only by a Save on edit data whose four required fields are
\* non-empty, for the row being edited, and after it editingRow is null and
\* editData is empty.
C24_SaveNeedsRequiredFields ==
    [][LET blank == \E field \in RequiredFields : BlankField(editData, field)
       IN  /\ (fn' = "handleSave" /\ blank) =>
                  UNCHANGED <<requests, editingRow, editData>>
           /\ (requests' # requests) =>
                  /\ fn' = "handleSave"
                  /\ ~blank
                  /\ Len(requests') = Len(requests) + 1
                  /\ requests'[Len(requests')].id = editingRow.v
                  /\ editingRow' = JsNull
                  /\ editData' = <<>>]_vars

\* C24's case: the Save of row 2, which has no material, was refused and left
\* the edit state; an earlier Save of row 1 sent its update.
C24_Witness ==
    /\ fn = "handleSave"
    /\ Len(requests) = 1
    /\ requests[1].id = 1
    /\ editingRow = JsNum(2)
    /\ MaterialField \notin DOMAIN editData
    /\ ret = CannotSaveText \o MissingFieldsText \o Material \o <<".", " ">>
                 \o EmptyFieldsText \o Thickness \o <<".">>

\* The value is a string that does not start with a formula trigger.
SafeField(value) ==
    /\ value.t = "string"
    /\ value.v # <<>> => value.v[1] \notin FormulaTriggers

\* C26: the update request a Save has just sent carries safe data: each field
\* other than id, created_at and updated_at is a string that does not start
\* with '=', '+', '-', '@', tab or carriage return; and saving the values it
\* carries once more sends the same values: sanitizing them again changes
\* nothing.
C26_UpdatePayloadIsSafe ==
    (fn = "handleSave" /\ requests # <<>>) =>
        LET sent == requests[Len(requests)].data
            again == sanitizeCSVRow(sent)
        IN  /\ \A field \in DOMAIN sent \ SystemFields : SafeField(sent[field])
            /\ DOMAIN again = DOMAIN sent
            /\ \A field \in DOMAIN sent : again[field] = sent[field]

\* C26's case: row 1, whose notes hold the formula =1, was saved with the part
\* mark +P typed in, shown again as saved, edited and saved again unchanged:
\* both requests carry '+P and '=1, with one quote each, and the quantity as
\* the string 1.
C26_Witness ==
    /\ fn = "handleSave"
    /\ Len(requests) = 2
    /\ requests[1] = requests[2]
    /\ requests[2].id = 1
    /\ requests[2].data[PartMarkField] = JsStr(<<"'", "+", "P">>)
    /\ requests[2].data[NotesField] = JsStr(<<"'", "=", "1">>)
    /\ requests[2].data[QuantityField] = JsStr(<<"1">>)
    /\ requests[2].data[IdField] = JsNum(1)
    /\ data[1] = requests[1].data

(***************************************************************************)
(* components/DataGrid.tsx: selecting and deleting rows.  selectedRows is  *)
(* a Set: its ids, in the order they were added.  The answer given to      *)
(* window.confirm is an input of the handlers that ask.  mutation holds    *)
(* the status of deleteRowsMutation (rows) and of deleteRowMutation (row). *)
(***************************************************************************)
\* A bulk-delete request: deleteRowsMutation.mutate(Array.from(selectedRows)).
DeleteRowsRequest(ids) == [kind |-> "deleteRows", ids |-> ids]

\* A single delete request: deleteRowMutation.mutate(id).
DeleteRowRequest(id) == [kind |-> "deleteRow", ids |-> <<id>>]

\* data.map((row) => row.id)
RowIds(rows) == [i \in 1..Len(rows) |-> rows[i][IdField].v]

\* A bug: the selected rows are deleted whatever the answer to the dialog.
handleDeleteSelectedNoConfirm(confirmed) ==
    IF Len(selectedRows) = 0
    THEN UNCHANGED <<requests, mutation, selectedRows>>
    ELSE /\ requests' = Append(requests, DeleteRowsRequest(selectedRows))
         /\ mutation' = [mutation EXCEPT !.rows = "pending"]
         /\ selectedRows' = <<>>

handleSelectAll(checked) ==
    selectedRows' = IF checked THEN RowIds(data) ELSE <<>>

\* new Set(selectedRows), then add(id) or delete(id)
handleSelectRow(id, checked) ==
    LET Other(x, i) == x # id
    IN  selectedRows' =
            IF checked
            THEN IF \E i \in 1..Len(selectedRows) : selectedRows[i] = id
                 THEN selectedRows
                 ELSE Append(selectedRows, id)
            ELSE Filter(selectedRows, Other)

handleDeleteRow(id, confirmed) ==
    IF confirmed
    THEN /\ requests' = Append(requests, DeleteRowRequest(id))
         /\ mutation' = [mutation EXCEPT !.row = "pending"]
    ELSE UNCHANGED <<requests, mutation>>

handleDeleteSelected(confirmed) ==
    IF Len(selectedRows) = 0
    THEN UNCHANGED <<requests, mutation, selectedRows>>
    ELSE IF confirmed
    THEN /\ requests' = Append(requests, DeleteRowsRequest(selectedRows))
         /\ mutation' = [mutation EXCEPT !.rows = "pending"]
         /\ selectedRows' = <<>>
    ELSE UNCHANGED <<requests, mutation, selectedRows>>

(***************************************************************************)
(* The selection workflow's inputs: the data prop is one of three pages    *)
(* (two rows, one row, none), and changes from one to another when the     *)
(* home page passes other rows.  At most MaxDeletes delete requests are    *)
(* sent.                                                                   *)
(***************************************************************************)
RowThree ==
    (IdField :> JsNum(3)) @@ (PartMarkField :> JsStr(P1))
        @@ (AssemblyMarkField :> JsStr(A1)) @@ (MaterialField :> JsStr(Steel))
        @@ (ThicknessField :> JsStr(TwoMm)) @@ (QuantityField :> JsNum(1))
        @@ (UpdatedAtField :> JsStr(<<"-">>))

GridPages == {<<RowOne, RowTwo>>, <<RowThree>>, <<RowOne>>, <<>>}

SelectInit ==
    /\ fn = ""
    /\ arg = <<>>
    /\ ret = <<>>
    /\ pc = "ui"
    /\ selected = NoFile
    /\ inputValue = <<>>
    /\ mutation = [rows |-> "idle", row |-> "idle"]
    /\ requests = <<>>
    /\ toasts = <<>>
    /\ HomeIdle
    /\ ResetIdle
    /\ data \in GridPages
    /\ editingRow = JsNull
    /\ editData = <<>>
    /\ selectedRows = <<>>

selectFrame ==
    <<ret, pc, selected, inputValue, toasts, homeVars, editingRow, editData, resetVars>>

\* The checkbox of the table head; it is checked when every row is selected.
SelectAll ==
    /\ data # <<>>
    /\ LET isAllSelected == Len(data) > 0 /\ Len(selectedRows) = Len(data)
       IN  /\ handleSelectAll(~isAllSelected)
           /\ arg' = ~isAllSelected
    /\ fn' = "handleSelectAll"
    /\ UNCHANGED <<requests, mutation, data, selectFrame>>

\* The checkbox of a displayed row; it is checked when the row is selected.
SelectRow ==
    /\ \E i \in 1..Len(data) :
          LET id == data[i][IdField].v
              has == \E k \in 1..Len(selectedRows) : selectedRows[k] = id
          IN  /\ handleSelectRow(id, ~has)
              /\ arg' = id
    /\ fn' = "handleSelectRow"
    /\ UNCHANGED <<requests, mutation, data, selectFrame>>

\* The Delete button of a displayed row that is not being edited, disabled
\* while deleteRowMutation is pending.
DeleteRow ==
    /\ mutation.row # "pending"
    /\ Len(requests) < MaxDeletes
    /\ \E i \in 1..Len(data) : \E confirmed \in BOOLEAN :
          /\ handleDeleteRow(data[i][IdField].v, confirmed)
          /\ arg' = confirmed
    /\ fn' = "handleDeleteRow"
    /\ UNCHANGED <<selectedRows, data, selectFrame>>

\* The Delete Selected button, shown while rows are selected, disabled while
\* deleteRowsMutation is pending.
DeleteSelected ==
    /\ data # <<>>
    /\ Len(selectedRows) > 0
    /\ mutation.rows # "pending"
    /\ Len(requests) < MaxDeletes
    /\ \E confirmed \in BOOLEAN :
          /\ handleDeleteSelected(confirmed)
          /\ arg' = confirmed
    /\ fn' = "handleDeleteSelected"
    /\ UNCHANGED <<data, selectFrame>>

\* A delete request resolved or was rejected.
DeleteSettled ==
    /\ \E m \in {"rows", "row"} : \E status \in {"success", "error"} :
          /\ mutation[m] = "pending"
          /\ mutation' = [mutation EXCEPT ![m] = status]
    /\ fn' = "onSettled"
    /\ arg' = <<>>
    /\ UNCHANGED <<requests, selectedRows, data, selectFrame>>

\* The home page passes other rows (a query refetched after a delete, an
\* update or an upload, another search, another page); the effect on [data]
\* then clears the selection.
DataChanged ==
    /\ \E rows \in GridPages :
          /\ rows # data
          /\ data' = rows
    /\ selectedRows' = <<>>
    /\ fn' = "useEffect"
    /\ arg' = <<>>
    /\ UNCHANGED <<requests, mutation, selectFrame>>

SelectNext ==
    \/ SelectAll
    \/ SelectRow
    \/ DeleteRow
    \/ DeleteSelected
    \/ DeleteSettled
    \/ DataChanged

SpecSelect == SelectInit /\ [][SelectNext]_vars

(***************************************************************************)
(* Claims about selecting and deleting.                                    *)
(***************************************************************************)
\* The ids of the rows displayed.
DisplayedIds == {data[i][IdField].v : i \in 1..Len(data)}

\* C25: the selection is a set of ids of displayed rows.  A bulk-delete
\* request is sent only by a confirmed click on Delete Selected with a
\* non-empty selection, carries exactly the ids selected at the click, and
\* leaves the selection empty; a declined click sends nothing; and the
\* selection is empty after any change of the displayed data.
C25_BulkDeleteCarriesSelection ==
    [][/\ Range(selectedRows) \subseteq DisplayedIds
       /\ (requests' # requests /\ requests'[Len(requests')].kind = "deleteRows") =>
              /\ fn' = "handleDeleteSelected"
              /\ arg' = TRUE
              /\ requests' = Append(requests, requests'[Len(requests')])
              /\ Range(requests'[Len(requests')].ids) = Range(selectedRows)
              /\ Len(requests'[Len(requests')].ids) = Cardinality(Range(selectedRows))
              /\ Range(selectedRows) # {}
              /\ selectedRows' = <<>>
       /\ (fn' = "handleDeleteSelected" /\ (arg' = FALSE \/ selectedRows = <<>>)) =>
              UNCHANGED <<requests, selectedRows>>
       /\ (data' # data) => selectedRows' = <<>>]_vars

\* C25's case: rows 2 and 1 were selected, in this order, and deleted after the
\* dialog was confirmed; the selection is empty.
C25_Witness ==
    /\ fn = "handleDeleteSelected"
    /\ arg = TRUE
    /\ requests = <<DeleteRowsRequest(<<2, 1>>)>>
    /\ selectedRows = <<>>
    /\ mutation.rows = "pending"

(***************************************************************************)
(* pages/ResetPasswordPage.tsx with hooks/useAuth.ts: the reset-password   *)
(* form.  alert() messages are returned in ret; mutation is the status of  *)
(* resetPasswordMutation.                                                  *)
(***************************************************************************)
FillAllFieldsText == <<"P", "l", "e", "a", "s", "e", " ", "f", "i", "l", "l", " ", "i", "n", " ", "a", "l", "l", " ", "f", "i", "e", "l", "d", "s">>
DoNotMatchText == <<"P", "a", "s", "s", "w", "o", "r", "d", "s", " ", "d", "o", " ", "n", "o", "t", " ", "m", "a", "t", "c", "h">>
MeetRequirementsText == <<"P", "l", "e", "a", "s", "e", " ", "e", "n", "s", "u", "r", "e", " ", "y", "o", "u", "r", " ", "p", "a", "s", "s", "w", "o", "r", "d", " ", "m", "e", "e", "t", "s", " ", "a", "l", "l", " ", "r", "e", "q", "u", "i", "r", "e", "m", "e", "n", "t", "s", ".">>
ResetSuccessText == <<"P", "a", "s", "s", "w", "o", "r", "d", " ", "r", "e", "s", "e", "t", " ", "s", "u", "c", "c", "e", "s", "s", "f", "u", "l", "l", "y">>
ResetFailedText == <<"P", "a", "s", "s", "w", "o", "r", "d", " ", "r", "e", "s", "e", "t", " ", "f", "a", "i", "l", "e", "d">>

\* The token of the page's URL.
ResetToken == <<"t">>

\* resetPasswordMutation.mutateAsync({ token, newPassword: password })
ResetRequest(token, password) ==
    [kind |-> "resetPassword", token |-> token, newPassword |-> password]

\* A bug: the confirmation is not compared with the password.
handleSubmitNoMatchTest ==
    IF newPassword = <<>> \/ confirmPassword = <<>>
    THEN /\ ret' = FillAllFieldsText
         /\ UNCHANGED <<requests, mutation>>
    ELSE IF ~validatePassword(newPassword).isValid
    THEN /\ ret' = MeetRequirementsText
         /\ UNCHANGED <<requests, mutation>>
    ELSE /\ requests' = Append(requests, ResetRequest(ResetToken, newPassword))
         /\ mutation' = "pending"
         /\ UNCHANGED ret

\* handleSubmit up to its await.
handleSubmit ==
    IF newPassword = <<>> \/ confirmPassword = <<>>
    THEN /\ ret' = FillAllFieldsText
         /\ UNCHANGED <<requests, mutation>>
    ELSE IF newPassword # confirmPassword
    THEN /\ ret' = DoNotMatchText
         /\ UNCHANGED <<requests, mutation>>
    ELSE IF ~validatePassword(newPassword).isValid
    THEN /\ ret' = MeetRequirementsText
         /\ UNCHANGED <<requests, mutation>>
    ELSE /\ requests' = Append(requests, ResetRequest(ResetToken, newPassword))
         /\ mutation' = "pending"
         /\ UNCHANGED ret

(***************************************************************************)
(* The reset workflow's inputs: what is typed into either field is one of  *)
(* ResetPasswords (nothing, a password that is too short, two passwords    *)
(* that meet every criterion).  The form is submitted with whatever the    *)
(* fields hold: the handler does not rely on the submit button, which is   *)
(* disabled unless the fields pass the same tests.  At most MaxResets      *)
(* requests are sent.                                                      *)
(***************************************************************************)
ShortPassword == <<"a", "A", "!">>
GoodPassword == <<"a", "A", "!", "a", "a", "a", "a", "a">>
OtherGoodPassword == <<"a", "A", "!", "a", "a", "a", "a", "b">>

ResetPasswords == {<<>>, ShortPassword, GoodPassword, OtherGoodPassword}

ResetInit ==
    /\ fn = ""
    /\ arg = <<>>
    /\ ret = <<>>
    /\ pc = "ui"
    /\ UploadIdle
    /\ HomeIdle
    /\ GridIdle
    /\ ResetIdle

resetFrame == <<arg, pc, selected, inputValue, homeVars, gridVars>>

\* The form is rendered until the page is in the submitted state.
FormShown == ~isSubmitted

SetPassword ==
    /\ FormShown
    /\ \E value \in ResetPasswords :
          /\ value # newPassword
          /\ newPassword' = value
    /\ fn' = "setPassword"
    /\ UNCHANGED <<ret, confirmPassword, isSubmitted, mutation, requests, toasts, resetFrame>>

SetConfirmPassword ==
    /\ FormShown
    /\ \E value \in ResetPasswords :
          /\ value # confirmPassword
          /\ confirmPassword' = value
    /\ fn' = "setConfirmPassword"
    /\ UNCHANGED <<ret, newPassword, isSubmitted, mutation, requests, toasts, resetFrame>>

\* The form's submit event; while a request is pending the form is not
\* submitted again.
Submit ==
    /\ FormShown
    /\ mutation # "pending"
    /\ Len(requests) < MaxResets
    /\ handleSubmit
    /\ fn' = "handleSubmit"
    /\ UNCHANGED <<newPassword, confirmPassword, isSubmitted, toasts, resetFrame>>

\* The request resolved, with a body that says success or not: onSuccess
\* toasts when it does, and handleSubmit goes on after its await.
ResetResolved ==
    /\ mutation = "pending"
    /\ mutation' = "success"
    /\ \E success \in BOOLEAN :
          toasts' = IF success THEN Append(toasts, ResetSuccessText) ELSE toasts
    /\ isSubmitted' = TRUE
    /\ fn' = "onSuccess"
    /\ UNCHANGED <<ret, newPassword, confirmPassword, requests, resetFrame>>

\* The request was rejected: onError toasts, and handleSubmit's catch block
\* does nothing.
ResetRejected ==
    /\ mutation = "pending"
    /\ mutation' = "error"
    /\ toasts' = Append(toasts, ResetFailedText)
    /\ fn' = "onError"
    /\ UNCHANGED <<ret, newPassword, confirmPassword, isSubmitted, requests, resetFrame>>

ResetNext ==
    \/ SetPassword
    \/ SetConfirmPassword
    \/ Submit
    \/ ResetResolved
    \/ ResetRejected

SpecReset == ResetInit /\ [][ResetNext]_vars

(***************************************************************************)
(* Claims about the reset-password form.                                   *)
(***************************************************************************)
\* C27: a reset-password request is sent only when the password and its
\* confirmation are both non-empty and equal and validatePassword says the
\* password is valid, and it carries this password; the page enters the
\* submitted state only in the step in which a pending request resolves, and
\* stays on the form when the request is rejected.
C27_ResetNeedsValidMatchingPassword ==
    [][/\ (requests' # requests) =>
              /\ newPassword # <<>>
              /\ confirmPassword # <<>>
              /\ newPassword = confirmPassword
              /\ validatePassword(newPassword).isValid
              /\ requests' = Append(requests, ResetRequest(ResetToken, newPassword))
       /\ (isSubmitted' # isSubmitted) =>
              /\ isSubmitted'
              /\ mutation = "pending"
              /\ mutation' = "success"
              /\ requests # <<>>
       /\ (mutation = "pending" /\ mutation' = "error") => ~isSubmitted'
       /\ (fn' = "handleSubmit" /\ requests' = requests) => ~isSubmitted']_vars

\* C27's case: a first request was rejected and the page stayed on the form;
\* the second, sent with another password, resolved and the page is in the
\* submitted state.
C27_Witness ==
    /\ requests = <<ResetRequest(ResetToken, GoodPassword),
                    ResetRequest(ResetToken, OtherGoodPassword)>>
    /\ toasts = <<ResetFailedText, ResetSuccessText>>
    /\ mutation = "success"
    /\ isSubmitted

=============================================================================
